---- MODULE Spec2Model ----
(***************************************************************************)
(* ruby-usb: the libusb binding (usb.c) and its Ruby layer (lib/usb.rb).   *)
(*                                                                         *)
(* The repository holds two revisions of usb.c.  src/unnamed/part_000 is   *)
(* the revision lib/usb.rb is written against (wrappers carry a parent,    *)
(* six registries are swept and marked); src/usb.c is the earlier one (no  *)
(* parent, four registries swept and marked).  The variable rev fixes the  *)
(* revision a behaviour runs; everything else is common to both.           *)
(***************************************************************************)
EXTENDS Integers, Sequences, FiniteSets, TLC

\* ------------------------------------------------------------------ bounds
MaxDangling == 1    \* registered wrappers the collector has freed
MaxStale == 1       \* revoked wrappers the application still references
MaxHandles == 1     \* usb_open calls in one behaviour
MaxCloses == 1      \* failing usb_close calls the application makes on one handle
BufLen == 3         \* bytes of the buffer get_string_simple allocates (1024)

\* --------------------------------------------------------------- constants
NULL == 0
Qnil == <<"nil", 0, 0>>
Qtrue == <<"true", 0, 0>>
Qfalse == <<"false", 0, 0>>

\* An argument of a method is a Fixnum n, written Num(n), or a wrapper.
Num(n) == <<"num", n, 0>>

Revs == {"usb.c", "part_000"}

\* The revisions of usb.rb that define USB::DevHandle#get_string_simple.
LibRevs == {"usb.rb", "part_002", "part_001"}

Kinds == {"bus", "device", "config_descriptor", "interface",
          "interface_descriptor", "endpoint_descriptor"}

Addr == 1..2

\* ------------------------------------------------- the stack's tree (libusb)
\* struct usb_bus / usb_device / usb_config_descriptor / usb_interface /
\* usb_interface_descriptor as the binding reads them: the linked lists are
\* sequences of addresses, an array is its base address and its count.
Z == [a \in Addr |-> 0]
E == [a \in Addr |-> <<>>]

TreeA ==
  [ busses             |-> <<1, 2>>,
    dirname            |-> (1 :> 1) @@ (2 :> 2) @@ Z,
    devices            |-> (1 :> <<1, 2>>) @@ E,
    filename           |-> (1 :> 1) @@ (2 :> 2) @@ Z,
    bus                |-> (1 :> 1) @@ (2 :> 1) @@ Z,
    children           |-> (1 :> <<2>>) @@ E,
    config             |-> (1 :> 1) @@ Z,
    bNumConfigurations |-> (1 :> 1) @@ Z,
    interface          |-> (1 :> 1) @@ Z,
    bNumInterfaces     |-> (1 :> 1) @@ Z,
    altsetting         |-> (1 :> 1) @@ Z,
    num_altsetting     |-> (1 :> 1) @@ Z,
    endpoint           |-> (1 :> 1) @@ Z,
    bNumEndpoints      |-> (1 :> 2) @@ Z,
    bEndpointAddress   |-> (1 :> 1) @@ (2 :> 2) @@ Z,
    bmAttributes       |-> (1 :> 2) @@ (2 :> 3) @@ Z,
    bConfigurationValue |-> (1 :> 1) @@ Z,
    bInterfaceNumber   |-> (1 :> 0) @@ (2 :> 1) @@ Z,
    bAlternateSetting  |-> (1 :> 0) @@ (2 :> 1) @@ Z,
    bDeviceClass       |-> (2 :> 8) @@ Z,
    bDeviceSubClass    |-> (2 :> 1) @@ Z,
    bDeviceProtocol    |-> (2 :> 1) @@ Z,
    bInterfaceClass    |-> (1 :> 8) @@ Z,
    bInterfaceSubClass |-> (1 :> 1) @@ Z,
    bInterfaceProtocol |-> (1 :> 1) @@ Z ]

TreeB ==
  [ busses             |-> <<2, 1>>,
    dirname            |-> (1 :> 2) @@ (2 :> 1) @@ Z,
    devices            |-> (2 :> <<1>>) @@ E,
    filename           |-> (1 :> 2) @@ Z,
    bus                |-> (1 :> 2) @@ Z,
    children           |-> E,
    config             |-> (1 :> 1) @@ Z,
    bNumConfigurations |-> (1 :> 1) @@ Z,
    interface          |-> (1 :> 1) @@ Z,
    bNumInterfaces     |-> (1 :> 1) @@ Z,
    altsetting         |-> (1 :> 2) @@ Z,
    num_altsetting     |-> (1 :> 1) @@ Z,
    endpoint           |-> (2 :> 2) @@ Z,
    bNumEndpoints      |-> (2 :> 1) @@ Z,
    bEndpointAddress   |-> (2 :> 1) @@ Z,
    bmAttributes       |-> (2 :> 1) @@ Z,
    bConfigurationValue |-> (1 :> 2) @@ Z,
    bInterfaceNumber   |-> (2 :> 1) @@ Z,
    bAlternateSetting  |-> (2 :> 0) @@ Z,
    bDeviceClass       |-> (1 :> 255) @@ Z,
    bDeviceSubClass    |-> (1 :> 1) @@ Z,
    bDeviceProtocol    |-> (1 :> 1) @@ Z,
    bInterfaceClass    |-> (2 :> 9) @@ Z,
    bInterfaceSubClass |-> Z,
    bInterfaceProtocol |-> Z ]

TreeC ==
  [ busses             |-> <<>>,
    dirname            |-> Z,
    devices            |-> E,
    filename           |-> Z,
    bus                |-> Z,
    children           |-> E,
    config             |-> Z,
    bNumConfigurations |-> Z,
    interface          |-> Z,
    bNumInterfaces     |-> Z,
    altsetting         |-> Z,
    num_altsetting     |-> Z,
    endpoint           |-> Z,
    bNumEndpoints      |-> Z,
    bEndpointAddress   |-> Z,
    bmAttributes       |-> Z,
    bConfigurationValue |-> Z,
    bInterfaceNumber   |-> Z,
    bAlternateSetting  |-> Z,
    bDeviceClass       |-> Z,
    bDeviceSubClass    |-> Z,
    bDeviceProtocol    |-> Z,
    bInterfaceClass    |-> Z,
    bInterfaceSubClass |-> Z,
    bInterfaceProtocol |-> Z ]

\* TreeA after usb_find_devices found device 1 gone and a new device in the
\* memory of device 2, its configuration array where device 1 had its own;
\* the new device has its class per interface.
TreeD ==
  [TreeA EXCEPT !.devices = (1 :> <<2>>) @@ E,
                !.bus = (2 :> 1) @@ Z,
                !.children = E,
                !.config = (2 :> 1) @@ Z,
                !.bNumConfigurations = (2 :> 1) @@ Z,
                !.bDeviceClass = Z,
                !.bDeviceSubClass = Z,
                !.bDeviceProtocol = Z]

\* TreeA after usb_find_devices found both devices of bus 1 gone and two new
\* devices on bus 2, each in the memory of an old one, the list in the other
\* order.
TreeE ==
  [TreeA EXCEPT !.devices = (2 :> <<2, 1>>) @@ E,
                !.bus = (1 :> 2) @@ (2 :> 2) @@ Z,
                !.children = E]

Trees == {TreeA, TreeB, TreeC, TreeD, TreeE}

\* usb_find_busses() rebuilds the bus list and with it every list below;
\* usb_find_devices() rescans the devices of the busses the stack holds and
\* leaves the bus list as it is.
usb_find_busses(t) == Trees
usb_find_devices(t) ==
  {u \in Trees : u.busses = t.busses /\ u.dirname = t.dirname}

Range(s) == {s[i] : i \in DOMAIN s}

\* The elements of the array at base p with n entries: &p[0] .. &p[n-1].
ArrayElems(p, n) == {p + i : i \in 0..(n - 1)}

\* The nodes of kind k the stack currently holds (allocated, not freed).
Nodes(t, k) ==
  LET dev == UNION {Range(t.devices[b]) : b \in Range(t.busses)}
      cfg == UNION {ArrayElems(t.config[d], t.bNumConfigurations[d]) : d \in dev}
      ifc == UNION {ArrayElems(t.interface[c], t.bNumInterfaces[c]) : c \in cfg}
      alt == UNION {ArrayElems(t.altsetting[i], t.num_altsetting[i]) : i \in ifc}
      ept == UNION {ArrayElems(t.endpoint[s], t.bNumEndpoints[s]) : s \in alt}
  IN  CASE k = "bus" -> Range(t.busses)
        [] k = "device" -> dev
        [] k = "config_descriptor" -> cfg
        [] k = "interface" -> ifc
        [] k = "interface_descriptor" -> alt
        [] k = "endpoint_descriptor" -> ept

SeqNext(s, a) ==
  IF \E i \in 1..(Len(s) - 1) : s[i] = a
    THEN s[(CHOOSE i \in 1..(Len(s) - 1) : s[i] = a) + 1]
    ELSE NULL

SeqPrev(s, a) ==
  IF \E i \in 2..Len(s) : s[i] = a
    THEN s[(CHOOSE i \in 2..Len(s) : s[i] = a) - 1]
    ELSE NULL

\* Reading a field through a pointer the stack has freed is undefined.  The
\* read yields NULL or the address of some node the stack holds now (the
\* memory was cleared or reused); a count read this way yields 0 or 1.
AnyPtr(t, k) == Nodes(t, k) \cup {NULL}
AnyCount == {0, 1}

\* usb_get_busses(): the head of the bus list.
usb_get_busses(t) == IF t.busses = <<>> THEN NULL ELSE Head(t.busses)

\* bus->next, bus->prev, bus->devices
bus_next(t, a) ==
  IF a \in Nodes(t, "bus") THEN {SeqNext(t.busses, a)} ELSE AnyPtr(t, "bus")
bus_prev(t, a) ==
  IF a \in Nodes(t, "bus") THEN {SeqPrev(t.busses, a)} ELSE AnyPtr(t, "bus")
bus_devices(t, a) ==
  IF a \in Nodes(t, "bus")
    THEN {IF t.devices[a] = <<>> THEN NULL ELSE Head(t.devices[a])}
    ELSE AnyPtr(t, "device")

\* device->next, device->prev, device->bus, device->children[0..num_children)
device_next(t, a) ==
  IF a \in Nodes(t, "device")
    THEN {SeqNext(t.devices[t.bus[a]], a)} ELSE AnyPtr(t, "device")
device_prev(t, a) ==
  IF a \in Nodes(t, "device")
    THEN {SeqPrev(t.devices[t.bus[a]], a)} ELSE AnyPtr(t, "device")
device_bus(t, a) ==
  IF a \in Nodes(t, "device") THEN {t.bus[a]} ELSE AnyPtr(t, "bus")
device_children(t, a) ==
  IF a \in Nodes(t, "device")
    THEN {t.children[a]}
    ELSE {<<>>} \cup {<<p>> : p \in AnyPtr(t, "device")}

\* An array field and its count field, read from node a of kind k: the set of
\* <<base, count>> the read can yield; the elements are of kind e.
ArrayField(t, k, a, base, count, e) ==
  IF a \in Nodes(t, k)
    THEN {<<base[a], count[a]>>}
    ELSE {<<NULL, 0>>} \cup ((Nodes(t, e) \X AnyCount))

device_config(t, a) ==
  ArrayField(t, "device", a, t.config, t.bNumConfigurations,
             "config_descriptor")
config_interface(t, a) ==
  ArrayField(t, "config_descriptor", a, t.interface, t.bNumInterfaces,
             "interface")
interface_altsetting(t, a) ==
  ArrayField(t, "interface", a, t.altsetting, t.num_altsetting,
             "interface_descriptor")
setting_endpoint(t, a) ==
  ArrayField(t, "interface_descriptor", a, t.endpoint, t.bNumEndpoints,
             "endpoint_descriptor")


\* One scalar field of each kind, as its accessor reads it: bus->dirname,
\* device->filename, config->bNumInterfaces, interface->num_altsetting,
\* setting->bNumEndpoints, endpoint->bEndpointAddress.
scalar_field(t, k, a) ==
  IF a \in Nodes(t, k)
    THEN {CASE k = "bus" -> t.dirname[a]
            [] k = "device" -> t.filename[a]
            [] k = "config_descriptor" -> t.bNumInterfaces[a]
            [] k = "interface" -> t.num_altsetting[a]
            [] k = "interface_descriptor" -> t.bNumEndpoints[a]
            [] k = "endpoint_descriptor" -> t.bEndpointAddress[a]}
    ELSE AnyCount

\* ------------------------------------------------------------------- state
VARIABLES
  rev,        \* the revision of usb.c that is running
  lib,        \* the revision of usb.rb that is loaded
  stack,      \* the tree the stack (libusb) currently holds
  obj,        \* the wrapper objects: VALUE -> what DATA_PTR leads to
  objects,    \* the registries  c_name ## _objects : address -> VALUE
  ivars,      \* the instance variables lib/usb.rb has set: <<VALUE, name>> -> string
  hdl,        \* the USB::DevHandle objects
  call,       \* the USB.dev_string call under way: its arguments and its result
  thread,     \* the traversal of lib/usb.rb a second thread is in the middle of
  before      \* history: the wrappers that existed when the last sweep ran

vars == <<rev, lib, stack, obj, objects, ivars, hdl, call, thread, before>>

\* A thread that runs no traversal.  Of a traversal: op is the method that
\* runs and outer the one that called it; pc the call it makes next; self its
\* receiver; n its argument; cur, result, keys, todo, flat its local
\* variables; ret what it returned and err what it raised.  History: swept
\* tells that USB.find_busses ran while it was running, stale counts the
\* calls it made on wrappers that existed when the last sweep ran, mixed
\* tells that it returned such wrappers together with others, partial that
\* it had wrappers in its list when it raised.
Idle ==
  [status |-> "idle", op |-> "", outer |-> "", pc |-> "", self |-> Qnil,
   n |-> 0, cur |-> Qnil, result |-> <<>>, keys |-> <<>>, todo |-> <<>>,
   flat |-> <<>>, ret |-> <<>>, err |-> "", swept |-> FALSE, stale |-> 0,
   mixed |-> FALSE, partial |-> FALSE]

\* The wrappers the local variables of a running traversal reference.
Refs(f) ==
  IF f.status # "running" THEN {}
  ELSE ({f.self, f.cur} \cup {f.result[i] : i \in DOMAIN f.result}
          \cup {f.todo[i] : i \in DOMAIN f.todo}
          \cup {f.flat[i] : i \in DOMAIN f.flat}) \ {Qnil}

\* What a call does is the set of its outcomes: the state it leaves (obj,
\* objects, ivars, hdl) and what the caller sees.  ret: the VALUEs returned,
\* an array in order, a single VALUE as <<v>>; err: the exception raised, ""
\* when the call returns; val, str: a number, a string returned; prims: the
\* stack primitives invoked, in order; live: the wrappers that were live when
\* an enumeration primitive was invoked; buf: the bytes of a returned string;
\* args: the numbers passed to the primitives of prims that take one;
\* yielded: the objects the call has passed to its block, in order.
\* Same is the outcome of a call that returns nil and changes nothing.
Same ==
  [obj |-> obj, objects |-> objects, ivars |-> ivars, hdl |-> hdl,
   ret |-> <<>>, err |-> "", val |-> 0, str |-> "", prims |-> <<>>,
   live |-> {}, buf |-> <<>>, args |-> <<>>, yielded |-> <<>>]

Raises(m, err) == [m EXCEPT !.err = err, !.ret = <<>>, !.val = 0, !.str = ""]

\* The state after the call is the outcome's.
Do(m) ==
  /\ obj' = m.obj
  /\ objects' = m.objects
  /\ ivars' = m.ivars
  /\ hdl' = m.hdl
  /\ UNCHANGED <<rev, lib, stack, call, thread, before>>

\* ------------------------------------------------------- identity registry
\* Data_Wrap_Struct(): a VALUE that no object in use has.
Data_Wrap_Struct(o, k, p) ==
  <<k, p, CHOOSE n \in 1..(Cardinality(DOMAIN o) + 1) :
            /\ <<k, p, n>> \notin DOMAIN o
            /\ \A m \in 1..(n - 1) : <<k, p, m>> \in DOMAIN o>>

\* The parent rusb_ ## c_name ## _make stores: src/usb.c stores none.
make_parent_usb_c(parent) == Qnil
make_parent(r, parent) ==
  IF r = "usb.c" THEN make_parent_usb_c(parent) ELSE parent

\* A lookup that never finds an entry.
st_lookup_miss(tbl, p) == FALSE

\* st_lookup(c_name ## _objects, p, &v)
st_lookup(tbl, p) == p \in DOMAIN tbl

\* st_add_direct(c_name ## _objects, p, v)
st_add_direct(tbl, p, v) == (p :> v) @@ tbl

\* A make without the test for NULL: the null address is wrapped like any.
rusb_make_null(r, S, k, p, parent) ==
  IF st_lookup(S.objects[k], p)
    THEN [obj |-> S.obj, objects |-> S.objects, v |-> S.objects[k][p]]
  ELSE LET v == Data_Wrap_Struct(S.obj, k, p)
           d == [ptr |-> p, parent |-> make_parent(r, parent)]
       IN  [obj |-> (v :> d) @@ S.obj,
            objects |-> [S.objects EXCEPT ![k] = st_add_direct(@, p, v)],
            v |-> v]

\* A make that stores the parent of the call in a wrapper it finds registered.
rusb_make_reparent(r, S, k, p, parent) ==
  IF p = NULL
    THEN [obj |-> S.obj, objects |-> S.objects, v |-> Qnil]
  ELSE IF st_lookup(S.objects[k], p)
    THEN [obj |-> [S.obj EXCEPT ![S.objects[k][p]].parent =
                                  make_parent(r, parent)],
          objects |-> S.objects, v |-> S.objects[k][p]]
  ELSE LET v == Data_Wrap_Struct(S.obj, k, p)
           d == [ptr |-> p, parent |-> make_parent(r, parent)]
       IN  [obj |-> (v :> d) @@ S.obj,
            objects |-> [S.objects EXCEPT ![k] = st_add_direct(@, p, v)],
            v |-> v]

\* A make that finds no entry and then takes the revoked wrapper the address
\* had, attaching it again, where there is one.
rusb_make_revive(r, S, k, p, parent) ==
  LET old == {v \in DOMAIN S.obj : v[1] = k /\ v[2] = p /\ S.obj[v].ptr = NULL}
      v == IF old # {} THEN CHOOSE x \in old : TRUE
           ELSE Data_Wrap_Struct(S.obj, k, p)
      d == [ptr |-> p, parent |-> make_parent(r, parent)]
  IN  IF p = NULL
        THEN [obj |-> S.obj, objects |-> S.objects, v |-> Qnil]
      ELSE IF st_lookup(S.objects[k], p)
        THEN [obj |-> S.obj, objects |-> S.objects, v |-> S.objects[k][p]]
      ELSE [obj |-> (v :> d) @@ [w \in DOMAIN S.obj \ {v} |-> S.obj[w]],
            objects |-> [S.objects EXCEPT ![k] = st_add_direct(@, p, v)],
            v |-> v]

\* rusb_ ## c_name ## _make(p, parent) on the state S = [obj, objects]; the
\* result carries the state after the call and the VALUE returned in v.
rusb_make(r, S, k, p, parent) ==
  IF p = NULL
    THEN [obj |-> S.obj, objects |-> S.objects, v |-> Qnil]
  ELSE IF st_lookup(S.objects[k], p)
    THEN [obj |-> S.obj, objects |-> S.objects, v |-> S.objects[k][p]]
  ELSE LET v == Data_Wrap_Struct(S.obj, k, p)
           d == [ptr |-> p, parent |-> make_parent(r, parent)]
       IN  [obj |-> (v :> d) @@ S.obj,
            objects |-> [S.objects EXCEPT ![k] = st_add_direct(@, p, v)],
            v |-> v]

\* The loop  for (i = 0; i < n; i++) rb_ary_store(ary, i, make(&base[i], parent))
\* from index i on; the result carries the array built in ret.
RECURSIVE rusb_make_array(_, _, _, _, _, _, _)
rusb_make_array(r, S, k, base, i, n, parent) ==
  IF i >= n
    THEN [obj |-> S.obj, objects |-> S.objects, ret |-> <<>>]
    ELSE LET m == rusb_make(r, S, k, base + i, parent)
             rest == rusb_make_array(r, [obj |-> m.obj, objects |-> m.objects],
                                     k, base, i + 1, n, parent)
         IN  [obj |-> rest.obj, objects |-> rest.objects,
              ret |-> <<m.v>> \o rest.ret]

\* The loop of rusb_device_children over the array of child pointers c, from
\* index i on: each entry is its own pointer, not an element address.
RECURSIVE rusb_make_each(_, _, _, _, _, _)
rusb_make_each(r, S, k, c, i, parent) ==
  IF i > Len(c)
    THEN [obj |-> S.obj, objects |-> S.objects, ret |-> <<>>]
    ELSE LET m == rusb_make(r, S, k, c[i], parent)
             rest == rusb_make_each(r, [obj |-> m.obj, objects |-> m.objects],
                                    k, c, i + 1, parent)
         IN  [obj |-> rest.obj, objects |-> rest.objects,
              ret |-> <<m.v>> \o rest.ret]

\* check_usb_ ## c_name(v): DATA_PTR(v), NULL once revoked.
check_usb(v) == obj[v].ptr

\* get_rusb_ ## c_name(v) raises "revoked USB::..." on a NULL DATA_PTR.
Revoked(v) == check_usb(v) = NULL

Wrappers(k) == {v \in DOMAIN obj : v[1] = k}
Live(o) == {v \in DOMAIN o : o[v].ptr # NULL}

\* The outcome of a call that wraps one pointer and returns the wrapper.
Make(k, p, parent) ==
  LET m == rusb_make(rev, [obj |-> obj, objects |-> objects], k, p, parent)
  IN  [Same EXCEPT !.obj = m.obj, !.objects = m.objects, !.ret = <<m.v>>]

\* The outcome of a call that wraps the array at base and returns the array.
MakeArray(k, base, n, parent) ==
  LET m == rusb_make_array(rev, [obj |-> obj, objects |-> objects],
                           k, base, 0, n, parent)
  IN  [Same EXCEPT !.obj = m.obj, !.objects = m.objects, !.ret = m.ret]

\* ------------------------------------------------------------- enumeration
\* revoke_data_i on one registry entry: DATA_PTR(val) = NULL (and ST_DELETE).
revoke_data_i(d) == [ptr |-> NULL, parent |-> Qnil]

\* The registries rusb_find_busses sweeps: four of the six in src/usb.c.
RevokedKinds_usb_c == {"bus", "device", "config_descriptor", "interface"}

\* A rusb_find_busses that sweeps no registry.
RevokedKinds_none(r) == {}

\* A rusb_find_busses that sweeps the registry of the busses alone.
RevokedKinds_bus(r) == {"bus"}
RevokedKinds(r) == IF r = "usb.c" THEN RevokedKinds_usb_c ELSE Kinds

\* st_foreach(t, revoke_data_i, 0) over the swept registries, on the objects o.
st_foreach_revoke(r, o, tbls) ==
  [v \in DOMAIN o |->
     IF v[1] \in RevokedKinds(r) /\ v \in Range(tbls[v[1]])
       THEN revoke_data_i(o[v]) ELSE o[v]]

\* The registries after the sweep: ST_DELETE emptied the swept ones.
st_foreach_delete(r, tbls) ==
  [k \in Kinds |-> IF k \in RevokedKinds(r) THEN <<>> ELSE tbls[k]]

\* A sweep that takes the handles for tree wrappers and clears them too.
rusb_find_busses_handles ==
  [Same EXCEPT !.obj = st_foreach_revoke(rev, obj, objects),
               !.objects = st_foreach_delete(rev, objects),
               !.hdl = [h \in DOMAIN hdl |-> [hdl[h] EXCEPT !.ptr = NULL]],
               !.prims = <<"usb_find_busses">>,
               !.live = Live(st_foreach_revoke(rev, obj, objects))]

\* rusb_find_busses: the sweep, then usb_find_busses().
rusb_find_busses ==
  LET o1 == st_foreach_revoke(rev, obj, objects)
  IN  [Same EXCEPT !.obj = o1, !.objects = st_foreach_delete(rev, objects),
                   !.prims = <<"usb_find_busses">>, !.live = Live(o1)]

\* rusb_find_devices: usb_find_devices().
rusb_find_devices ==
  [Same EXCEPT !.prims = <<"usb_find_devices">>, !.live = Live(obj)]

\* USB.find_busses.  The primitive leaves the stack with some tree.  Of the
\* wrappers now revoked the application still references at most MaxStale,
\* and a running traversal those of its local variables; the collector
\* reclaims the others, with their instance variables.
USB_find_busses ==
  LET m == rusb_find_busses
  IN  /\ \E kept \in SUBSET (DOMAIN m.obj \ Live(m.obj)) :
           /\ Cardinality(kept \ Refs(thread)) <= MaxStale
           /\ Refs(thread) \subseteq Live(m.obj) \cup kept
           /\ obj' = [v \in Live(m.obj) \cup kept |-> m.obj[v]]
           /\ before' = Live(m.obj) \cup kept
           /\ ivars' = [x \in {y \in DOMAIN ivars :
                                 y[1] \in Live(m.obj) \cup kept} |-> ivars[x]]
      /\ objects' = m.objects
      /\ hdl' = m.hdl
      /\ stack' \in usb_find_busses(stack)
      /\ thread' = IF thread.status = "running"
                     THEN [thread EXCEPT !.swept = TRUE] ELSE thread
      /\ UNCHANGED <<rev, lib, call>>

\* USB.find_devices
USB_find_devices ==
  LET m == rusb_find_devices
  IN  /\ obj' = m.obj
      /\ objects' = m.objects
      /\ ivars' = m.ivars
      /\ hdl' = m.hdl
      /\ stack' \in usb_find_devices(stack)
      /\ UNCHANGED <<rev, lib, call, thread, before>>

\* -------------------------------------------------------------- navigation
\* USB.first_bus
rusb_first_bus == {Make("bus", usb_get_busses(stack), Qnil)}

\* USB::Bus#prev
rusb_bus_prev(v) ==
  IF Revoked(v) THEN {Raises(Same, "revoked")}
  ELSE {Make("bus", p, Qnil) : p \in bus_prev(stack, check_usb(v))}

\* USB::Bus#next
rusb_bus_next(v) ==
  IF Revoked(v) THEN {Raises(Same, "revoked")}
  ELSE {Make("bus", p, Qnil) : p \in bus_next(stack, check_usb(v))}

\* USB::Bus#first_device
rusb_bus_first_device(v) ==
  IF Revoked(v) THEN {Raises(Same, "revoked")}
  ELSE {Make("device", p, v) : p \in bus_devices(stack, check_usb(v))}

\* USB::Device#prev
rusb_device_prev(v) ==
  IF Revoked(v) THEN {Raises(Same, "revoked")}
  ELSE {Make("device", p, obj[v].parent) :
          p \in device_prev(stack, check_usb(v))}

\* USB::Device#next
rusb_device_next(v) ==
  IF Revoked(v) THEN {Raises(Same, "revoked")}
  ELSE {Make("device", p, obj[v].parent) :
          p \in device_next(stack, check_usb(v))}

\* USB::Device#bus
rusb_device_bus(v) ==
  IF Revoked(v) THEN {Raises(Same, "revoked")}
  ELSE {Make("bus", p, Qnil) : p \in device_bus(stack, check_usb(v))}

\* USB::Device#children
rusb_device_children(v) ==
  IF Revoked(v) THEN {Raises(Same, "revoked")}
  ELSE {LET m == rusb_make_each(rev, [obj |-> obj, objects |-> objects],
                                "device", c, 1, obj[v].parent)
        IN  [Same EXCEPT !.obj = m.obj, !.objects = m.objects, !.ret = m.ret] :
          c \in device_children(stack, check_usb(v))}

\* USB::Device#configurations
rusb_device_config(v) ==
  IF Revoked(v) THEN {Raises(Same, "revoked")}
  ELSE {MakeArray("config_descriptor", a[1], a[2], v) :
          a \in device_config(stack, check_usb(v))}

\* USB::Configuration#interfaces
rusb_config_interfaces(v) ==
  IF Revoked(v) THEN {Raises(Same, "revoked")}
  ELSE {MakeArray("interface", a[1], a[2], v) :
          a \in config_interface(stack, check_usb(v))}

\* The bound of the loop over altsetting[]: i < num_altsetting in part_000,
\* i <= num_altsetting in src/usb.c.
altsetting_bound_usb_c(n) == n + 1
altsetting_bound(r, n) == IF r = "usb.c" THEN altsetting_bound_usb_c(n) ELSE n

\* USB::Interface#settings
rusb_interface_settings(v) ==
  IF Revoked(v) THEN {Raises(Same, "revoked")}
  ELSE {MakeArray("interface_descriptor", a[1], altsetting_bound(rev, a[2]), v) :
          a \in interface_altsetting(stack, check_usb(v))}

\* USB::Setting#endpoints
rusb_setting_endpoints(v) ==
  IF Revoked(v) THEN {Raises(Same, "revoked")}
  ELSE {MakeArray("endpoint_descriptor", a[1], a[2], v) :
          a \in setting_endpoint(stack, check_usb(v))}

\* --------------------------------------------------------------- accessors
\* The scalar accessors  return INT2FIX(get_usb_ ## c_name(v)->field):
\* USB::Bus#dirname, USB::Device#filename, USB::Configuration#bNumInterfaces,
\* USB::Interface#num_altsetting, USB::Setting#bNumEndpoints,
\* USB::Endpoint#bEndpointAddress and their like.
rusb_field(v) ==
  IF Revoked(v) THEN {Raises(Same, "revoked")}
  ELSE {[Same EXCEPT !.val = x] :
          x \in scalar_field(stack, v[1], check_usb(v))}

\* rusb_ ## c_name ## _parent(v): USB::Configuration#device,
\* USB::Interface#configuration, USB::Setting#interface, USB::Endpoint#setting.
rusb_parent(v) ==
  IF Revoked(v) THEN {Raises(Same, "revoked")}
  ELSE {[Same EXCEPT !.ret = <<obj[v].parent>>]}

\* The object a machine word is when it is taken for a VALUE: 0 is Qfalse,
\* 2 Qtrue, 4 Qnil, and an odd word 2n+1 the Fixnum n (INT2FIX).
VALUE_cast(w) ==
  CASE w = 0 -> Qfalse
    [] w = 2 -> Qtrue
    [] w = 4 -> Qnil
    [] w % 2 = 1 -> Num((w - 1) \div 2)

\* RTEST(v): the C truth value, 1 unless v is Qfalse or Qnil.
RTEST(v) == IF v \in {Qfalse, Qnil} THEN 0 ELSE 1

\* !p on a pointer: the C truth value of p == NULL.
c_not(p) == IF p = NULL THEN 1 ELSE 0

\* rusb_ ## c_name ## _revoked_p(v): return RTEST(!check_usb_ ## c_name(v)).
\* The int RTEST yields is returned as the VALUE.
rusb_revoked_p(v) ==
  {[Same EXCEPT !.ret = <<VALUE_cast(RTEST(VALUE_cast(c_not(check_usb(v)))))>>]}

\* The first lines of every inspect of lib/usb.rb:
\*   if self.revoked? then "#<class revoked>" else (the summary of the live) end
inspect(v, live) ==
  UNION {IF RTEST(m.ret[1]) = 1
           THEN {[Same EXCEPT !.str = <<v[1], "revoked">>]}
           ELSE live : m \in rusb_revoked_p(v)}

\* USB::Bus#inspect: "#<USB::Bus dirname>" of the live.
bus_inspect(v) ==
  inspect(v, {IF f.err # "" THEN f ELSE [Same EXCEPT !.str = <<v[1], f.val>>] :
                f \in rusb_field(v)})

\* Integer#& and Integer#>> of Ruby on bytes.
RECURSIVE and(_, _)
and(x, y) ==
  IF x = 0 \/ y = 0 THEN 0
  ELSE (x % 2) * (y % 2) + 2 * and(x \div 2, y \div 2)
shr(x, n) == x \div (2 ^ n)

\* The bytes a read through a freed endpoint pointer can yield.
AnyAttributes == {0, 1}

\* USB::Endpoint#bmAttributes
rusb_endpoint_bmAttributes(v) ==
  IF Revoked(v) THEN {Raises(Same, "revoked")}
  ELSE {[Same EXCEPT !.val = x] :
          x \in IF check_usb(v) \in Nodes(stack, "endpoint_descriptor")
                  THEN {stack.bmAttributes[check_usb(v)]}
                  ELSE AnyAttributes}

\* %w[Control Isochronous Bulk Interrupt] and the two arrays of the
\* isochronous sub-types; a Ruby array index i is i + 1 here.
TransferTypes == <<"Control", "Isochronous", "Bulk", "Interrupt">>
SynchronizationTypes ==
  <<"NoSynchronization", "Asynchronous", "Adaptive", "Synchronous">>
UsageTypes == <<"Data", "Feedback", "ImplicitFeedback", "?">>

\* type: the sub-types follow the transfer type of every endpoint.
endpoint_type_always(bits) ==
  <<TransferTypes[and(3, bits) + 1],
    SynchronizationTypes[shr(and(12, bits), 2) + 1],
    UsageTypes[shr(and(48, bits), 4) + 1]>>

\* type = [transfer_type]; if transfer_type == 'Isochronous' then
\* type << synchronization_type << usage_type
endpoint_type(bits) ==
  LET transfer_type == TransferTypes[and(3, bits) + 1]
  IN  IF transfer_type = "Isochronous"
        THEN <<transfer_type, SynchronizationTypes[shr(and(12, bits), 2) + 1],
               UsageTypes[shr(and(48, bits), 4) + 1]>>
        ELSE <<transfer_type>>

\* The summary of a live endpoint with these two bytes, as the fields that
\* "#<#{self.class} #{num} #{inout} #{type.join(" ")}>" joins.
endpoint_summary(endpoint_address, bits) ==
  LET num == and(endpoint_address, 15)
      inout == IF and(endpoint_address, 128) = 0 THEN "OUT" ELSE "IN "
  IN  <<num, inout>> \o endpoint_type(bits)

\* USB::Endpoint#inspect
endpoint_inspect(v) ==
  inspect(v, UNION {IF a.err # "" THEN {a}
                    ELSE {IF b.err # "" THEN b
                          ELSE [Same EXCEPT
                                  !.str = <<v[1]>> \o endpoint_summary(a.val, b.val)] :
                            b \in rusb_endpoint_bmAttributes(v)} :
                      a \in rusb_field(v)})

\* The kinds whose wrappers carry a parent accessor.
Children == Kinds \ {"bus", "device"}

\* lib/usb.rb, def bus() self.setting.interface.configuration.device.bus end
\* and its siblings: from v, steps calls upward, each on what the call before
\* returned; the parent accessors up to the device, then Device#bus.
RECURSIVE upward(_, _)
upward(v, steps) ==
  IF steps = 0 THEN {[Same EXCEPT !.ret = <<v>>]}
  ELSE IF v = Qnil \/ v[1] = "bus" THEN {Raises(Same, "NoMethodError")}
  ELSE IF v[1] = "device" THEN rusb_device_bus(v)
  ELSE UNION {IF m.err # "" THEN {m} ELSE upward(m.ret[1], steps - 1) :
                m \in rusb_parent(v)}


\* ------------------------------------------------------------ USB::DevHandle
\* A handle object: ptr is DATA_PTR (the session usb_open returned, NULL once
\* closed), held whether the application still references the object, freed
\* whether the collector has run its dfree; closes counts the invocations of
\* the usb_close primitive on the session this handle was created with.
HandleValue(H) == <<"devhandle", 0, Cardinality(DOMAIN H) + 1>>

\* usb_open(): NULL, or a session no other handle has.
usb_open(H) == {NULL, Cardinality(DOMAIN H) + 1}

\* The values a primitive returns: a count, or a negated errno (-EPIPE,
\* -EFBIG, -EIO, -EPERM).
PrimRets == {-32, -27, -5, -1, 0, 2}
CloseRets == {-5, 0}

\* rusb_dev_handle_new(h): Data_Wrap_Struct(.., rusb_devhandle_free, h)
rusb_dev_handle_new(H, h) ==
  (HandleValue(H) :> [ptr |-> h, held |-> TRUE, freed |-> FALSE, closes |-> 0])
    @@ H

\* USB::Device#usb_open
rusb_device_open(v) ==
  IF Revoked(v) THEN {Raises(Same, "revoked")}
  ELSE {[Same EXCEPT !.hdl = rusb_dev_handle_new(hdl, h),
                     !.ret = <<HandleValue(hdl)>>,
                     !.prims = <<"usb_open">>] : h \in usb_open(hdl)}

\* The handle operations continue an outcome m: they act on m.hdl and add to
\* m.prims, so that lib/usb.rb's methods compose them.

\* A check that takes every handle for open.
closed_never(m, v) == FALSE

\* get_usb_devhandle(v) raises "closed USB::DevHandle" on a NULL DATA_PTR.
closed(m, v) == m.hdl[v].ptr = NULL

\* A check that lets every return value pass.
check_usb_error_pass(m, reason, ret) == m

\* A check that takes the return value itself for the errno.
check_usb_error_sign(m, reason, ret) ==
  IF ret < 0
    THEN [m EXCEPT !.err = "SystemCallError", !.val = ret,
                   !.ret = <<>>, !.str = reason]
    ELSE m

\* check_usb_error(reason, ret): when ret < 0, errno = -ret and
\* rb_sys_fail(reason); the exception carries the errno in val and the reason
\* in str.
check_usb_error(m, reason, ret) ==
  IF ret < 0
    THEN [m EXCEPT !.err = "SystemCallError", !.val = 0 - ret,
                   !.ret = <<>>, !.str = reason]
    ELSE m

\* The usb_close primitive, invoked on the session of handle v.
usb_close(m, v) ==
  [m EXCEPT !.hdl[v].closes = @ + 1, !.prims = Append(@, "usb_close")]

\* A usb_close that clears DATA_PTR before it checks the return value.
rusb_close_clear(m, v, r) ==
  IF closed(m, v) THEN Raises(m, "closed")
  ELSE [check_usb_error(usb_close(m, v), "usb_close", r) EXCEPT
          !.hdl[v].ptr = NULL]

\* USB::DevHandle#usb_close, the primitive returning r.
rusb_close(m, v, r) ==
  IF closed(m, v) THEN Raises(m, "closed")
  ELSE LET e == check_usb_error(usb_close(m, v), "usb_close", r)
       IN  IF r < 0 THEN e ELSE [e EXCEPT !.hdl[v].ptr = NULL]

\* The operations that return Qnil, and those that return INT2NUM(ret).
NilOps == {"usb_set_configuration", "usb_set_altinterface", "usb_clear_halt",
           "usb_reset", "usb_claim_interface", "usb_release_interface",
           "usb_get_driver_np", "usb_detach_kernel_driver_np"}
CountOps == {"usb_control_msg", "usb_get_string", "usb_get_string_simple",
             "usb_get_descriptor", "usb_get_descriptor_by_endpoint",
             "usb_bulk_write", "usb_bulk_read", "usb_interrupt_write",
             "usb_interrupt_read"}
HandleOps == NilOps \cup CountOps

\* Operations of which usb_reset, once its primitive succeeded, closes the
\* handle as usb_close does.
rusb_handle_op_reset_closes(m, v, op, r) ==
  IF closed(m, v) THEN Raises(m, "closed")
  ELSE LET e == check_usb_error([m EXCEPT !.prims = Append(@, op)], op, r)
       IN  IF r < 0 THEN e
           ELSE IF op \in CountOps THEN [e EXCEPT !.val = r, !.ret = <<>>]
           ELSE IF op = "usb_reset"
             THEN [e EXCEPT !.val = 0, !.ret = <<Qnil>>, !.hdl[v].ptr = NULL]
           ELSE [e EXCEPT !.val = 0, !.ret = <<Qnil>>]

\* USB::DevHandle#usb_set_configuration .. #usb_detach_kernel_driver_np: the
\* operation op on handle v, its primitive returning r.
rusb_handle_op(m, v, op, r) ==
  IF closed(m, v) THEN Raises(m, "closed")
  ELSE LET e == check_usb_error([m EXCEPT !.prims = Append(@, op)], op, r)
       IN  IF r < 0 THEN e
           ELSE IF op \in CountOps THEN [e EXCEPT !.val = r, !.ret = <<>>]
           ELSE [e EXCEPT !.val = 0, !.ret = <<Qnil>>]

\* rusb_set_configuration, rusb_set_altinterface, rusb_clear_halt,
\* rusb_claim_interface, rusb_release_interface: get_usb_devhandle(v), then
\* NUM2INT(arg), which raises TypeError on an object that is no number, then
\* the primitive with that number.
rusb_handle_op_num(m, v, op, arg, r) ==
  IF closed(m, v) THEN Raises(m, "closed")
  ELSE IF arg[1] # "num" THEN Raises(m, "TypeError")
  ELSE LET e == rusb_handle_op(m, v, op, r)
       IN  [e EXCEPT !.args = Append(@, arg[2])]

\* A dfree that releases the object and leaves the session open.
rusb_devhandle_free_leak(m, v) == [m EXCEPT !.hdl[v].freed = TRUE]

\* rusb_devhandle_free: the dfree the collector runs on an unreferenced handle.
rusb_devhandle_free(m, v) ==
  LET e == IF m.hdl[v].ptr # NULL THEN usb_close(m, v) ELSE m
  IN  [e EXCEPT !.hdl[v].freed = TRUE]

\* ------------------------------------------------------------- lib/usb.rb
\* What the block given to USB::Device#open does with the handle h: return
\* its result, raise, or close the handle (the primitive returning r) and
\* return its result.
Blocks == {"return", "raise", "close"}
block_result(m) ==
  IF m.err # "" THEN m ELSE [m EXCEPT !.str = "result", !.ret = <<>>]
yield(m, h, blk, r) ==
  CASE blk = "return" -> block_result(m)
    [] blk = "raise" -> Raises(m, "block")
    [] blk = "close" -> block_result(rusb_close(m, h, r))

\* begin r = yield h ensure h.usb_close end: an exception of the ensure
\* clause replaces the block's; when open returns nothing references h.
ensure_usb_close(b, h, r) ==
  LET e == rusb_close(b, h, r)
  IN  [e EXCEPT !.hdl[h].held = FALSE, !.ret = <<>>]

\* USB::Device#open with a block: r1, r2 are what the usb_close primitive
\* returns to the block and to the ensure clause.
device_open(v, blk, r1, r2) ==
  {IF m.err # "" THEN m
   ELSE ensure_usb_close(yield(m, m.ret[1], blk, r1), m.ret[1], r2) :
     m \in rusb_device_open(v)}

\* The methods of USB::DevHandle that take a number or a wrapper: the field
\* they ask the argument for and the operation they call.
Convenience ==
  {[method |-> "set_configuration", field |-> "bConfigurationValue",
    op |-> "usb_set_configuration"],
   [method |-> "set_altinterface", field |-> "bAlternateSetting",
    op |-> "usb_set_altinterface"],
   [method |-> "clear_halt", field |-> "bEndpointAddress",
    op |-> "usb_clear_halt"],
   [method |-> "claim_interface", field |-> "bInterfaceNumber",
    op |-> "usb_claim_interface"],
   [method |-> "release_interface", field |-> "bInterfaceNumber",
    op |-> "usb_release_interface"]}

\* arg.respond_to? field: the classes rb_define_method gives the accessor.
respond_to(arg, field) ==
  \/ field = "bConfigurationValue" /\ arg[1] = "config_descriptor"
  \/ field = "bAlternateSetting" /\ arg[1] = "interface_descriptor"
  \/ field = "bInterfaceNumber" /\ arg[1] = "interface_descriptor"
  \/ field = "bEndpointAddress" /\ arg[1] = "endpoint_descriptor"

\* The accessor of field on wrapper v: INT2FIX(get_usb_ ## c_name(v)->field).
rusb_descriptor_field(t, v, field) ==
  IF check_usb(v) \in Nodes(t, v[1]) THEN {t[field][check_usb(v)]} ELSE AnyCount

\* A method that hands its argument on as it is.
convenience_unresolved(c, h, arg, r) ==
  {rusb_handle_op_num(Same, h, c.op, arg, r)}

\* USB::DevHandle#set_configuration, #set_altinterface, #clear_halt,
\* #claim_interface, #release_interface:
\*   arg = arg.field if arg.respond_to? :field; self.usb_op(arg)
convenience(c, h, arg, r) ==
  IF respond_to(arg, c.field)
    THEN IF Revoked(arg) THEN {Raises(Same, "revoked")}
         ELSE {rusb_handle_op_num(Same, h, c.op, Num(x), r) :
                 x \in rusb_descriptor_field(stack, arg, c.field)}
    ELSE {rusb_handle_op_num(Same, h, c.op, arg, r)}

\* The Errno classes USB::DevHandle#get_string_simple rescues: EPIPE, EFBIG
\* and EPERM in src/lib/usb.rb, EPIPE in part_002, none in part_001.
EPIPE == 32
EFBIG == 27
EPERM == 1
Rescued_part_002 == {EPIPE}
Rescued_part_001 == {}
Rescued(l) ==
  CASE l = "usb.rb" -> {EPIPE, EFBIG, EPERM}
    [] l = "part_002" -> Rescued_part_002
    [] l = "part_001" -> Rescued_part_001

\* The buffer  "\0" * 1024  after usb_get_string_simple returned r: the r bytes
\* of the string (a byte is NUL or a character, 65), the rest NUL as before.
usb_get_string_simple(r) ==
  {b \in [1..BufLen -> {0, 65}] : \A i \in 1..BufLen : i > r => b[i] = 0}

\* A delete! that removes nothing.
delete_none(s, c) == s

\* String#delete!(c)
delete(s, c) == SelectSeq(s, LAMBDA x : x # c)

\* USB::DevHandle#get_string_simple: nil on a rescued error, else the text
\* without its NUL bytes; b is the buffer the primitive leaves.
get_string_simple(m, h, r, b) ==
  LET e == rusb_handle_op(m, h, "usb_get_string_simple", r)
  IN  IF e.err = "SystemCallError" /\ e.val \in Rescued(lib)
        THEN [e EXCEPT !.err = "", !.val = 0, !.str = "nil"]
      ELSE IF e.err # "" THEN e
      ELSE [e EXCEPT !.val = 0, !.str = "text", !.buf = delete(b, 0)]

\* self.open {|h| h.get_string_simple(index) } on the device wrapper d.
open_get_string(d, r1, r2) ==
  {IF m.err # "" THEN m
   ELSE ensure_usb_close(get_string_simple(m, m.ret[1], r1, b), m.ret[1], r2) :
     m \in rusb_device_open(d), b \in usb_get_string_simple(r1)}

\* The result assigned to the instance variable name of wrapper v.
ivar_set(m, v, name) ==
  IF m.err # "" THEN m
  ELSE [m EXCEPT !.ivars = (<<v, name>> :> m.str) @@ m.ivars]

\* Accessors that take a cached nil for no cache:  return @x if @x
device_string_truthy(v, name, r1, r2) ==
  IF <<v, name>> \in DOMAIN ivars /\ ivars[<<v, name>>] # "nil"
    THEN {[Same EXCEPT !.str = ivars[<<v, name>>]]}
    ELSE {ivar_set(m, v, name) : m \in open_get_string(v, r1, r2)}

\* USB::Device#manufacturer, #product, #serial_number
DeviceStrings == {"manufacturer", "product", "serial_number"}
device_string(v, name, r1, r2) ==
  IF <<v, name>> \in DOMAIN ivars
    THEN {[Same EXCEPT !.str = ivars[<<v, name>>]]}
    ELSE {ivar_set(m, v, name) : m \in open_get_string(v, r1, r2)}

\* USB::Configuration#description
config_description(v, r1, r2) ==
  IF <<v, "description">> \in DOMAIN ivars
    THEN {[Same EXCEPT !.str = ivars[<<v, "description">>]]}
  ELSE IF Revoked(v) THEN {Raises(Same, "revoked")}
  ELSE {ivar_set(m, v, "description") :
          m \in open_get_string(obj[v].parent, r1, r2)}

\* USB::Setting#description: the device is self.interface.configuration.device.
setting_description(v, r1, r2) ==
  IF <<v, "description">> \in DOMAIN ivars
    THEN {[Same EXCEPT !.str = ivars[<<v, "description">>]]}
  ELSE IF Revoked(v) \/ Revoked(obj[v].parent)
          \/ Revoked(obj[obj[v].parent].parent)
    THEN {Raises(Same, "revoked")}
  ELSE {ivar_set(m, v, "description") :
          m \in open_get_string(obj[obj[obj[v].parent].parent].parent, r1, r2)}

\* The loop  while x; result << x; x = x.next; end  of USB.busses and
\* USB::Bus#devices on the tree t, from the wrapper of pointer p on: the next
\* pointer is read through the wrapper just returned, and a device is wrapped
\* with the parent of the device before it.
RECURSIVE each_next(_, _, _, _, _)
each_next(t, S, k, p, parent) ==
  IF p = NULL
    THEN {[obj |-> S.obj, objects |-> S.objects, ret |-> <<>>]}
    ELSE LET m == rusb_make(rev, S, k, p, parent)
             a == m.obj[m.v].ptr
             nxt == IF k = "bus" THEN bus_next(t, a) ELSE device_next(t, a)
         IN  UNION {{[obj |-> r.obj, objects |-> r.objects,
                      ret |-> <<m.v>> \o r.ret] :
                       r \in each_next(t, [obj |-> m.obj, objects |-> m.objects],
                                       k, q, m.obj[m.v].parent)} : q \in nxt}

\* A sort that leaves the array in the order it has.
sort_by_none(s, key) == {s}

\* Array#sort_by: the array in ascending order of key; the order of entries
\* with equal keys is not defined.
sort_by(s, key) ==
  {[i \in 1..Len(s) |-> s[pi[i]]] : pi \in
     {q \in Permutations(1..Len(s)) :
        \A i, j \in 1..Len(s) : i < j => key[s[q[i]]] <= key[s[q[j]]]}}

\* The keys the block of sort_by reads: dirname of a bus, filename of a
\* device, through the accessor of each wrapper of ret.
sort_keys(t, o, k, ret) ==
  {key \in [Range(ret) -> UNION {scalar_field(t, k, o[v].ptr) : v \in Range(ret)}] :
     \A v \in Range(ret) : key[v] \in scalar_field(t, k, o[v].ptr)}

\* The array of each_next, sorted.
sorted(t, k, r) ==
  UNION {{[Same EXCEPT !.obj = r.obj, !.objects = r.objects, !.ret = x] :
            x \in sort_by(r.ret, key)} : key \in sort_keys(t, r.obj, k, r.ret)}

\* USB.busses on the tree t
busses(t) ==
  UNION {sorted(t, "bus", r) :
           r \in each_next(t, [obj |-> obj, objects |-> objects], "bus",
                           usb_get_busses(t), Qnil)}

\* USB::Bus#devices on the tree t
devices(t, v) ==
  IF Revoked(v) THEN {Raises(Same, "revoked")}
  ELSE UNION {sorted(t, "device", r) :
                r \in UNION {each_next(t, [obj |-> obj, objects |-> objects],
                                       "device", p, v) :
                               p \in bus_devices(t, check_usb(v))}}

\* ------------------------------------------- USB.find_bus, Bus#find_device
\* rb_str_new2(bus->dirname), rb_str_new2(device->filename): the string the
\* name c of the tree stands for, a sequence of characters.  The names are
\* numbered in the order of their strings.
rb_str_new2(c) ==
  CASE c = 0 -> <<>>
    [] c = 1 -> <<"0", "0", "1">>
    [] c = 2 -> <<"0", "0", "2">>
    [] c = 3 -> <<"0", "1">>
    [] c = 4 -> <<"u", "s", "b">>

\* String#to_i: the number the leading decimal digits denote, 0 without any.
DecDigits == <<"0", "1", "2", "3", "4", "5", "6", "7", "8", "9">>
RECURSIVE to_i_from(_, _, _)
to_i_from(str, i, acc) ==
  IF i > Len(str) \/ str[i] \notin Range(DecDigits) THEN acc
  ELSE to_i_from(str, i + 1,
                 10 * acc + (CHOOSE d \in 0..9 : DecDigits[d + 1] = str[i]))
to_i(str) == to_i_from(str, 1, 0)

\* The loop  while x; return x if n == x.name.to_i; x = x.next; end; return nil
\* from the pointer p on: the wrapper of p, its name read, else its next.
RECURSIVE find_next(_, _, _, _, _, _)
find_next(t, S, k, p, parent, n) ==
  IF p = NULL
    THEN {[Same EXCEPT !.obj = S.obj, !.objects = S.objects, !.ret = <<Qnil>>]}
    ELSE LET m == rusb_make(rev, S, k, p, parent)
             a == m.obj[m.v].ptr
             nxt == IF k = "bus" THEN bus_next(t, a) ELSE device_next(t, a)
         IN  UNION {IF n = to_i(rb_str_new2(name))
                      THEN {[Same EXCEPT !.obj = m.obj, !.objects = m.objects,
                                         !.ret = <<m.v>>]}
                      ELSE UNION {find_next(t, [obj |-> m.obj,
                                                objects |-> m.objects],
                                            k, q, m.obj[m.v].parent, n) :
                                    q \in nxt} :
                      name \in scalar_field(t, k, a)}

\* A search through USB.busses, the sorted array, in place of the list.
find_bus_sorted(t, n) ==
  UNION {LET hit == {i \in 1..Len(b.ret) :
                       \E name \in scalar_field(t, "bus", b.obj[b.ret[i]].ptr) :
                         n = to_i(rb_str_new2(name))}
         IN  IF hit = {} THEN {[b EXCEPT !.ret = <<Qnil>>]}
             ELSE {[b EXCEPT !.ret = <<b.ret[CHOOSE i \in hit :
                                               \A j \in hit : i <= j]>>]} :
           b \in busses(t)}

\* USB.find_bus(n) on the tree t
find_bus(t, n) ==
  find_next(t, [obj |-> obj, objects |-> objects], "bus", usb_get_busses(t),
            Qnil, n)

\* USB::Bus#find_device(n) on the tree t
find_device(t, v, n) ==
  IF Revoked(v) THEN {Raises(Same, "revoked")}
  ELSE UNION {find_next(t, [obj |-> obj, objects |-> objects], "device", p, v, n) :
                p \in bus_devices(t, check_usb(v))}

\* ------------------------------------------------------- USB.dev_string
\* nil in a row of CLASS_CODES
nil == -1

\* USB::CLASS_CODES: base class, subclass, protocol, description.
CLASS_CODES ==
  << <<1, nil, nil, "Audio">>,
     <<2, nil, nil, "Comm">>,
     <<3, nil, nil, "HID">>,
     <<5, nil, nil, "Physical">>,
     <<6, 1, 1, "StillImaging">>,
     <<6, nil, nil, "Image">>,
     <<7, nil, nil, "Printer">>,
     <<8, 1, nil, "MassStorage RBC Bluk-Only">>,
     <<8, 2, 80, "MassStorage ATAPI Bluk-Only">>,
     <<8, 3, 80, "MassStorage QIC-157 Bluk-Only">>,
     <<8, 4, nil, "MassStorage UFI">>,
     <<8, 5, 80, "MassStorage SFF-8070i Bluk-Only">>,
     <<8, 6, 80, "MassStorage SCSI Bluk-Only">>,
     <<8, nil, nil, "MassStorage">>,
     <<9, 0, 0, "Full speed Hub">>,
     <<9, 0, 1, "Hi-speed Hub with single TT">>,
     <<9, 0, 2, "Hi-speed Hub with multiple TTs">>,
     <<9, nil, nil, "Hub">>,
     <<10, nil, nil, "CDC">>,
     <<11, nil, nil, "SmartCard">>,
     <<13, 0, 0, "ContentSecurity">>,
     <<14, nil, nil, "Video">>,
     <<220, 1, 1, "Diagnostic USB2">>,
     <<220, nil, nil, "Diagnostic">>,
     <<224, 1, 1, "Bluetooth">>,
     <<224, 1, 2, "UWB">>,
     <<224, 1, 3, "RemoteNDIS">>,
     <<224, 2, 1, "Host Wire Adapter Control/Data">>,
     <<224, 2, 2, "Device Wire Adapter Control/Data">>,
     <<224, 2, 3, "Device Wire Adapter Isochronous">>,
     <<224, nil, nil, "Wireless Controller">>,
     <<239, 1, 1, "Active Sync">>,
     <<239, 1, 2, "Palm Sync">>,
     <<239, 2, 1, "Interface Association Descriptor">>,
     <<239, 2, 2, "Wire Adapter Multifunction Peripheral">>,
     <<239, 3, 1, "Cable Based Association Framework">>,
     <<239, nil, nil, "Miscellaneous">>,
     <<254, 1, 1, "Device Firmware Upgrade">>,
     <<254, 2, 0, "IRDA Bridge">>,
     <<254, 3, 0, "USB Test and Measurement">>,
     <<254, 3, 1, "USB Test and Measurement (USBTMC USB488)">>,
     <<254, nil, nil, "Application Specific">>,
     <<255, nil, nil, "Vendor specific">> >>

\* The three hashes after the first i rows of CLASS_CODES.each: a row with a
\* protocol goes to HASH3, else one with a subclass to HASH2, else to HASH1;
\* a later row replaces an earlier one of the same key.
RECURSIVE CLASS_CODES_each(_)
CLASS_CODES_each(i) ==
  IF i = 0 THEN [HASH1 |-> <<>>, HASH2 |-> <<>>, HASH3 |-> <<>>]
  ELSE LET H == CLASS_CODES_each(i - 1)
           row == CLASS_CODES[i]
       IN  IF row[3] # nil
             THEN [H EXCEPT !.HASH3 = (<<row[1], row[2], row[3]>> :> row[4]) @@ @]
           ELSE IF row[2] # nil
             THEN [H EXCEPT !.HASH2 = (<<row[1], row[2]>> :> row[4]) @@ @]
           ELSE [H EXCEPT !.HASH1 = (<<row[1]>> :> row[4]) @@ @]

CLASS_CODES_HASH1 == CLASS_CODES_each(Len(CLASS_CODES)).HASH1
CLASS_CODES_HASH2 == CLASS_CODES_each(Len(CLASS_CODES)).HASH2
CLASS_CODES_HASH3 == CLASS_CODES_each(Len(CLASS_CODES)).HASH3

\* "%02x" % [n]: the digits of n in base 16, at least two of them.  A string
\* is the sequence of its pieces, a hexadecimal digit a piece of its own.
HexDigits ==
  <<"0", "1", "2", "3", "4", "5", "6", "7", "8", "9", "a", "b", "c", "d", "e", "f">>
RECURSIVE to_s16(_)
to_s16(n) ==
  IF n < 16 THEN <<HexDigits[n + 1]>>
  ELSE to_s16(n \div 16) \o <<HexDigits[(n % 16) + 1]>>
format_02x(n) == IF Len(to_s16(n)) < 2 THEN <<"0">> \o to_s16(n) ELSE to_s16(n)

\* A dev_string that looks the class up first.
dev_string_class_first(base_class, sub_class, protocol) ==
  IF <<base_class>> \in DOMAIN CLASS_CODES_HASH1
    THEN <<CLASS_CODES_HASH1[<<base_class>>], " (">> \o format_02x(sub_class)
           \o <<",">> \o format_02x(protocol) \o <<")">>
  ELSE <<"Unkonwn(">> \o format_02x(base_class) \o <<",">>
         \o format_02x(sub_class) \o <<",">> \o format_02x(protocol) \o <<")">>

\* USB.dev_string(base_class, sub_class, protocol)
dev_string(base_class, sub_class, protocol) ==
  IF <<base_class, sub_class, protocol>> \in DOMAIN CLASS_CODES_HASH3
    THEN <<CLASS_CODES_HASH3[<<base_class, sub_class, protocol>>]>>
  ELSE IF <<base_class, sub_class>> \in DOMAIN CLASS_CODES_HASH2
    THEN <<CLASS_CODES_HASH2[<<base_class, sub_class>>], " (">>
           \o format_02x(protocol) \o <<")">>
  ELSE IF <<base_class>> \in DOMAIN CLASS_CODES_HASH1
    THEN <<CLASS_CODES_HASH1[<<base_class>>], " (">> \o format_02x(sub_class)
           \o <<",">> \o format_02x(protocol) \o <<")">>
  ELSE <<"Unkonwn(">> \o format_02x(base_class) \o <<",">>
         \o format_02x(sub_class) \o <<",">> \o format_02x(protocol) \o <<")">>

\* The class, subclass and protocol bytes USB.dev_string is called with.
Classes == {0, 6, 8, 9, 16, 224, 255}
SubClasses == {0, 1, 2, 4, 6, 171}
Protocols == {0, 1, 2, 80, 255}
NoCall == [args |-> <<>>, str |-> <<>>]

\* ------------------------------------------- the flattened collections
\* A call on the objects S = [obj, objects] in place of those of the state:
\* what one of Bus#devices, Device#configurations, Configuration#interfaces,
\* Interface#settings, Setting#endpoints returns on wrapper v.
child(t, S, op, v) ==
  LET a == S.obj[v].ptr
      array(k, c, n) ==
        LET m == rusb_make_array(rev, S, k, c, 0, n, v)
        IN  [Same EXCEPT !.obj = m.obj, !.objects = m.objects, !.ret = m.ret]
  IN  IF a = NULL
        THEN {Raises([Same EXCEPT !.obj = S.obj, !.objects = S.objects],
                     "revoked")}
      ELSE CASE op = "devices" ->
               UNION {sorted(t, "device", r) :
                        r \in UNION {each_next(t, S, "device", p, v) :
                                       p \in bus_devices(t, a)}}
             [] op = "configurations" ->
               {array("config_descriptor", c[1], c[2]) : c \in device_config(t, a)}
             [] op = "interfaces" ->
               {array("interface", c[1], c[2]) : c \in config_interface(t, a)}
             [] op = "settings" ->
               {array("interface_descriptor", c[1], altsetting_bound(rev, c[2])) :
                  c \in interface_altsetting(t, a)}
             [] op = "endpoints" ->
               {array("endpoint_descriptor", c[1], c[2]) :
                  c \in setting_endpoint(t, a)}

\* vs.map {|d| d.op }.flatten from index i on: the arrays the calls return,
\* one after the other; the exception of a call ends it.
RECURSIVE flat_map(_, _, _, _, _)
flat_map(t, S, op, vs, i) ==
  IF i > Len(vs)
    THEN {[Same EXCEPT !.obj = S.obj, !.objects = S.objects]}
    ELSE UNION {IF m.err # "" THEN {m}
                ELSE {IF r.err # "" THEN r ELSE [r EXCEPT !.ret = m.ret \o r.ret] :
                        r \in flat_map(t, [obj |-> m.obj, objects |-> m.objects],
                                       op, vs, i + 1)} :
                  m \in child(t, S, op, vs[i])}

\* M.map {|d| d.op }.flatten on the array each outcome of M returned.
then_flat_map(t, M, op) ==
  UNION {IF m.err # "" THEN {m}
         ELSE flat_map(t, [obj |-> m.obj, objects |-> m.objects], op, m.ret, 1) :
           m \in M}

\* USB.busses on the objects S.
USB_busses_on(t, S) ==
  UNION {sorted(t, "bus", r) :
           r \in each_next(t, S, "bus", usb_get_busses(t), Qnil)}

\* USB.devices: USB.busses.map {|b| b.devices }.flatten
USB_devices(t, S) == then_flat_map(t, USB_busses_on(t, S), "devices")

\* Device#settings: configurations, their interfaces, their settings.
Device_settings(t, S, d) ==
  then_flat_map(t, then_flat_map(t, child(t, S, "configurations", d),
                                 "interfaces"), "settings")

\* ------------------------------------------------- USB.each_device_by_class
USB_CLASS_PER_INTERFACE == 0

\* The class, subclass and protocol bytes of the node a of kind k, as the
\* accessors bDeviceClass .. or bInterfaceClass .. read them; through a
\* pointer the stack has freed, any bytes.
AnyBytes == {<<0, 0, 0>>, <<255, 1, 1>>}
class_bytes(t, k, a) ==
  IF a \notin Nodes(t, k) THEN AnyBytes
  ELSE IF k = "device"
    THEN {<<t.bDeviceClass[a], t.bDeviceSubClass[a], t.bDeviceProtocol[a]>>}
    ELSE {<<t.bInterfaceClass[a], t.bInterfaceSubClass[a],
            t.bInterfaceProtocol[a]>>}

\* !x for an argument x that takes 0 for no argument.
not_zero(x) == x \in {nil, 0}

\* !x for an argument x: true of nil, the default, and of no number.
not(x) == x = nil

\* x.bClass == devclass && (!subclass || x.bSubClass == subclass) &&
\* (!protocol || x.bProtocol == protocol) on the bytes b of x
class_match(b, devclass, subclass, protocol) ==
  /\ b[1] = devclass
  /\ not(subclass) \/ b[2] = subclass
  /\ not(protocol) \/ b[3] = protocol

\* found, for the device wrapper d on the objects S: the outcomes of the test,
\* each with the objects it leaves and found in val (1 for true).
found(t, S, d, devclass, subclass, protocol) ==
  LET dev == [Same EXCEPT !.obj = S.obj, !.objects = S.objects]
      bool(x) == IF x THEN 1 ELSE 0
  IN  IF S.obj[d].ptr = NULL THEN {Raises(dev, "revoked")}
      ELSE UNION {
        IF b[1] = USB_CLASS_PER_INTERFACE
          THEN UNION {
                 IF m.err # "" THEN {m}
                 ELSE {[m EXCEPT !.ret = <<>>,
                                 !.val = bool(\E i \in 1..Len(m.ret) :
                                           class_match(c[i], devclass, subclass,
                                                       protocol))] :
                         c \in {x \in [1..Len(m.ret) ->
                                         UNION {class_bytes(t, "interface_descriptor",
                                                            m.obj[m.ret[j]].ptr) :
                                                  j \in 1..Len(m.ret)}] :
                                  \A j \in 1..Len(m.ret) :
                                    x[j] \in class_bytes(t, "interface_descriptor",
                                                         m.obj[m.ret[j]].ptr)}} :
                   m \in Device_settings(t, S, d)}
          ELSE {[dev EXCEPT !.val = bool(class_match(b, devclass, subclass,
                                                     protocol))]} :
          b \in class_bytes(t, "device", S.obj[d].ptr)}

\* USB.devices.each {|dev| found = ...; yield dev if found } from index i on.
RECURSIVE each_device(_, _, _, _, _, _, _)
each_device(t, S, ds, i, devclass, subclass, protocol) ==
  IF i > Len(ds)
    THEN {[Same EXCEPT !.obj = S.obj, !.objects = S.objects, !.ret = <<Qnil>>]}
    ELSE UNION {
      IF f.err # "" THEN {f}
      ELSE {IF r.err # "" \/ f.val = 0 THEN r
            ELSE [r EXCEPT !.yielded = <<ds[i]>> \o r.yielded] :
              r \in each_device(t, [obj |-> f.obj, objects |-> f.objects], ds,
                                i + 1, devclass, subclass, protocol)} :
        f \in found(t, S, ds[i], devclass, subclass, protocol)}

\* USB.each_device_by_class(devclass, subclass=nil, protocol=nil) {|dev| }
each_device_by_class(t, devclass, subclass, protocol) ==
  UNION {IF u.err # "" THEN {u}
         ELSE each_device(t, [obj |-> u.obj, objects |-> u.objects], u.ret, 1,
                          devclass, subclass, protocol) :
           u \in USB_devices(t, [obj |-> obj, objects |-> objects])}

\* The arguments the application searches with.
DevClasses == {8, 9, 255}
SubClassArgs == {nil, 0, 1}
ProtocolArgs == {nil, 0, 1}

\* ------------------------------------------- a traversal, call by call
\* The traversals of lib/usb.rb make one call of usb.so after the other; a
\* thread switch can come between two calls.  The frame f of a traversal
\* after each of its steps:

\* the method op returns r: to the application, or to USB.devices, which
\* then calls devices on the next bus of USB.busses.
Return(f, r) ==
  IF f.outer = "" THEN [f EXCEPT !.status = "returned", !.ret = r]
  ELSE LET todo == IF f.op = "busses" THEN r ELSE Tail(f.todo)
           flat == IF f.op = "busses" THEN <<>> ELSE f.flat \o r
       IN  IF todo = <<>>
             THEN [f EXCEPT !.status = "returned", !.ret = flat, !.todo = <<>>,
                            !.flat = flat]
             ELSE [f EXCEPT !.op = "devices", !.pc = "first",
                            !.self = Head(todo), !.cur = Qnil, !.result = <<>>,
                            !.keys = <<>>, !.todo = todo, !.flat = flat]

\* first_bus, first_device or next returned c:  while c; result << c; or
\* while c; return c if n == c.name.to_i
Arrive(f, c) ==
  IF f.op \in {"find_bus", "find_device"}
    THEN IF c = Qnil THEN Return(f, <<Qnil>>)
         ELSE [f EXCEPT !.cur = c, !.pc = "name"]
  ELSE IF c # Qnil
    THEN [f EXCEPT !.cur = c, !.result = @ \o <<c>>, !.pc = "next"]
  ELSE IF f.result = <<>> THEN Return(f, <<>>)
  ELSE [f EXCEPT !.cur = Qnil, !.pc = "sort"]

\* The call the traversal makes next: its receiver and its outcomes.
Receiver(f) ==
  CASE f.pc = "first" -> IF f.op \in {"busses", "find_bus"} THEN Qnil ELSE f.self
    [] f.pc = "sort" -> f.result[Len(f.keys) + 1]
    [] OTHER -> f.cur

Calls(f) ==
  CASE f.pc = "first" ->
         IF f.op \in {"busses", "find_bus"} THEN rusb_first_bus
         ELSE rusb_bus_first_device(f.self)
    [] f.pc = "next" ->
         IF f.op \in {"busses", "find_bus"} THEN rusb_bus_next(f.cur)
         ELSE rusb_device_next(f.cur)
    [] f.pc = "name" -> rusb_field(f.cur)
    [] f.pc = "sort" -> rusb_field(f.result[Len(f.keys) + 1])

\* The frame after the call returned outcome m.
Continue(f, m) ==
  CASE f.pc \in {"first", "next"} -> {Arrive(f, m.ret[1])}
    [] f.pc = "name" ->
         {IF f.n = to_i(rb_str_new2(m.val)) THEN Return(f, <<f.cur>>)
          ELSE [f EXCEPT !.pc = "next"]}
    [] f.pc = "sort" ->
         LET keys == f.keys \o <<m.val>>
         IN  IF Len(keys) < Len(f.result) THEN {[f EXCEPT !.keys = keys]}
             ELSE {Return(f, x) :
                     x \in sort_by(f.result,
                                   [v \in Range(f.result) |->
                                      keys[CHOOSE i \in 1..Len(keys) :
                                             f.result[i] = v]])}

\* A traversal that is over leaves its local variables and the application
\* what it returned.  History: whether the list returned holds wrappers that
\* existed when the last sweep ran together with wrappers made since, and
\* whether the list had wrappers when the traversal raised.
Over(g) ==
  IF g.status = "running" THEN g
  ELSE [Idle EXCEPT
          !.status = g.status, !.err = g.err, !.op = g.op, !.outer = g.outer,
          !.swept = g.swept, !.stale = g.stale,
          !.mixed = /\ g.status = "returned"
                    /\ \E i \in DOMAIN g.ret : g.ret[i] \in before
                    /\ \E i \in DOMAIN g.ret : g.ret[i] \notin before,
          !.partial = g.status = "raised" /\ g.result \o g.flat # <<>>]

\* The frame after the call on receiver recv came back with m.
After(f, recv, m) ==
  LET g == [f EXCEPT !.stale = @ + IF recv \in before THEN 1 ELSE 0]
  IN  IF m.err # "" THEN {Over([g EXCEPT !.status = "raised", !.err = m.err])}
      ELSE {Over(h) : h \in Continue(g, m)}

\* The traversals a thread can be in the middle of.
Traversals == {"busses", "devices", "find_bus", "find_device", "USB.devices"}

\* ------------------------------------------------------------------ actions
USB_first_bus == \E m \in rusb_first_bus : Do(m)
Bus_prev(v) == \E m \in rusb_bus_prev(v) : Do(m)
Bus_next(v) == \E m \in rusb_bus_next(v) : Do(m)
Bus_first_device(v) == \E m \in rusb_bus_first_device(v) : Do(m)
Device_prev(v) == \E m \in rusb_device_prev(v) : Do(m)
Device_next(v) == \E m \in rusb_device_next(v) : Do(m)
Device_bus(v) == \E m \in rusb_device_bus(v) : Do(m)
Device_children(v) == \E m \in rusb_device_children(v) : Do(m)
Device_configurations(v) == \E m \in rusb_device_config(v) : Do(m)
Configuration_interfaces(v) == \E m \in rusb_config_interfaces(v) : Do(m)
Interface_settings(v) == \E m \in rusb_interface_settings(v) : Do(m)
Setting_endpoints(v) == \E m \in rusb_setting_endpoints(v) : Do(m)
Field(v) == \E m \in rusb_field(v) : Do(m)
Parent(v) == rev = "part_000" /\ \E m \in rusb_parent(v) : Do(m)
Revoked_p(v) == rev = "part_000" /\ \E m \in rusb_revoked_p(v) : Do(m)

\* USB::Bus#inspect
Bus_inspect(v) ==
  /\ v[1] = "bus"
  /\ rev = "part_000"
  /\ \E m \in bus_inspect(v) : Do(m)

\* USB::Endpoint#inspect
Endpoint_inspect(v) ==
  /\ v[1] = "endpoint_descriptor"
  /\ rev = "part_000"
  /\ \E m \in endpoint_inspect(v) : Do(m)

USB_busses == \E m \in busses(stack) : Do(m)
Bus_devices(v) == \E m \in devices(stack, v) : Do(m)

\* USB.each_device_by_class: lib/usb.rb calls bDeviceClass and settings,
\* which src/unnamed/part_000 defines and src/usb.c does not.
USB_each_device_by_class ==
  /\ rev = "part_000"
  /\ \E c \in DevClasses, sc \in SubClassArgs, p \in ProtocolArgs :
       \E m \in each_device_by_class(stack, c, sc, p) : Do(m)

\* The numbers the application looks for.
Ids == {0, 1, 2}

USB_find_bus == \E n \in Ids : \E m \in find_bus(stack, n) : Do(m)
Bus_find_device(v) == \E n \in Ids : \E m \in find_device(stack, v, n) : Do(m)

\* The handles the application can call: referenced ones.
Held == {h \in DOMAIN hdl : hdl[h].held}
CanOpen == Cardinality(DOMAIN hdl) < MaxHandles

Device_usb_open(v) == CanOpen /\ \E m \in rusb_device_open(v) : Do(m)

Device_open(v) ==
  /\ CanOpen
  /\ \E blk \in Blocks, r1 \in CloseRets, r2 \in CloseRets :
       \E m \in device_open(v, blk, r1, r2) : Do(m)

DevHandle_usb_close(h) ==
  /\ hdl[h].ptr = NULL \/ hdl[h].closes < MaxCloses
  /\ \E r \in CloseRets : Do(rusb_close(Same, h, r))

DevHandle_op(h) ==
  \E op \in HandleOps, r \in PrimRets : Do(rusb_handle_op(Same, h, op, r))

\* The numbers the application passes.
Nums == {0, 1}

DevHandle_convenience(h) ==
  \E c \in Convenience, r \in CloseRets :
    \E arg \in {Num(n) : n \in Nums} \cup DOMAIN obj :
      \E m \in convenience(c, h, arg, r) : Do(m)

DevHandle_get_string_simple(h) ==
  \E r \in PrimRets : \E b \in usb_get_string_simple(r) :
    Do(get_string_simple(Same, h, r, b))

Device_string(v) ==
  \E name \in DeviceStrings, r1 \in PrimRets, r2 \in CloseRets :
    /\ CanOpen \/ <<v, name>> \in DOMAIN ivars
    /\ \E m \in device_string(v, name, r1, r2) : Do(m)

Configuration_description(v) ==
  /\ rev = "part_000"
  /\ CanOpen \/ <<v, "description">> \in DOMAIN ivars
  /\ \E r1 \in PrimRets, r2 \in CloseRets :
       \E m \in config_description(v, r1, r2) : Do(m)

Setting_description(v) ==
  /\ rev = "part_000"
  /\ CanOpen \/ <<v, "description">> \in DOMAIN ivars
  /\ \E r1 \in PrimRets, r2 \in CloseRets :
       \E m \in setting_description(v, r1, r2) : Do(m)

\* USB.dev_string, called with the arguments call holds.
USB_dev_string ==
  /\ call.args # <<>>
  /\ call.str = <<>>
  /\ call' = [call EXCEPT
               !.str = dev_string(call.args[1], call.args[2], call.args[3])]
  /\ UNCHANGED <<rev, lib, stack, obj, objects, ivars, hdl, thread, before>>

\* The second thread calls USB.busses, Bus#devices, USB.find_bus,
\* Bus#find_device or USB.devices: one traversal in a behaviour.
Thread_start ==
  /\ thread.status = "idle"
  /\ \E op \in Traversals, n \in Ids, b \in Wrappers("bus") \cup {Qnil} :
       /\ op \in {"devices", "find_device"} <=> b # Qnil
       /\ op \in {"find_bus", "find_device"} \/ n = 0
       /\ thread' = [Idle EXCEPT !.status = "running", !.pc = "first",
                                 !.op = IF op = "USB.devices" THEN "busses" ELSE op,
                                 !.outer = IF op = "USB.devices" THEN op ELSE "",
                                 !.self = b, !.n = n]
  /\ UNCHANGED <<rev, lib, stack, obj, objects, ivars, hdl, call, before>>

\* The traversal makes its next call.
Thread_step ==
  /\ thread.status = "running"
  /\ \E m \in Calls(thread) :
       /\ obj' = m.obj
       /\ objects' = m.objects
       /\ ivars' = m.ivars
       /\ hdl' = m.hdl
       /\ thread' \in After(thread, Receiver(thread), m)
  /\ UNCHANGED <<rev, lib, stack, call, before>>

\* rusb_gc_mark, the mark function of rusb_gc_root: the registries it walks,
\* and the wrappers it marks in the objects o with the registries tbl.
MarkedKinds_usb_c == {"bus", "device", "config_descriptor", "interface"}
MarkedKinds(r) == IF r = "usb.c" THEN MarkedKinds_usb_c ELSE Kinds

\* mark_data_i: if (DATA_PTR(val)) rb_gc_mark(val)
mark_data_i(o, w) == w \in DOMAIN o /\ o[w].ptr # NULL

rusb_gc_mark(r, o, tbl) ==
  {tbl[k][a] : <<k, a>> \in {x \in MarkedKinds(r) \X Addr :
                              /\ x[2] \in DOMAIN tbl[x[1]]
                              /\ mark_data_i(o, tbl[x[1]][x[2]])}}

\* The records rusb_ ## c_name ## _make allocates for a new wrapper: one
\* rusb_ ## c_name ## _t with xmalloc; src/usb.c wraps the node itself.
xmalloc(r) == IF r = "usb.c" THEN 0 ELSE 1

\* rusb_ ## c_name ## _free(p): if (p) free(p);  in src/usb.c its body is
\* empty.  The records it frees.
rusb_free(r, p) == IF r # "usb.c" /\ p # NULL THEN 1 ELSE 0

\* The collector frees the T_DATA object v of the objects o: it calls the
\* dfree of the object with DATA_PTR when DATA_PTR is not NULL.  The objects
\* left and the records freed.
obj_free(r, o, v) ==
  [obj |-> [w \in DOMAIN o \ {v} |-> o[w]],
   freed |-> IF o[v].ptr # NULL THEN rusb_free(r, o[v].ptr) ELSE 0]

\* The wrappers the registries hold.
Registered == UNION {Range(objects[k]) : k \in Kinds}

\* The collector frees wrapper v: the application references it no longer,
\* no running traversal holds it and rusb_gc_mark does not mark it.  The
\* registries are the binding's own memory and stay as they are.  At most
\* MaxDangling registered wrappers are freed at a time.
Collect(v) ==
  /\ v \notin rusb_gc_mark(rev, obj, objects)
  /\ v \in Registered => Cardinality(Registered \ DOMAIN obj) < MaxDangling
  /\ v \notin Refs(thread)
  /\ obj' = obj_free(rev, obj, v).obj
  /\ ivars' = [x \in {y \in DOMAIN ivars : y[1] # v} |-> ivars[x]]
  /\ UNCHANGED <<rev, lib, stack, objects, hdl, call, thread, before>>

\* The application drops its reference to handle h.
Drop(h) ==
  /\ hdl' = [hdl EXCEPT ![h].held = FALSE]
  /\ UNCHANGED <<rev, lib, stack, obj, objects, ivars, call, thread, before>>

\* The collector finalizes an unreferenced handle.
Finalize(h) ==
  /\ ~hdl[h].held
  /\ ~hdl[h].freed
  /\ Do(rusb_devhandle_free(Same, h))

\* The state once usb.so and a usb.rb are loaded; Init loads src/lib/usb.rb.
Loaded(libs) ==
  /\ rev \in Revs
  /\ lib \in libs
  /\ stack \in Trees
  /\ obj = <<>>
  /\ objects = [k \in Kinds |-> <<>>]
  /\ ivars = <<>>
  /\ hdl = <<>>
  /\ thread = Idle
  /\ before = {}

Init == Loaded({"usb.rb"}) /\ call = NoCall
InitLib == Loaded(LibRevs) /\ call = NoCall

Next ==
  \/ USB_find_busses
  \/ USB_find_devices
  \/ USB_first_bus
  \/ \E v \in Wrappers("bus") : Bus_prev(v)
  \/ \E v \in Wrappers("bus") : Bus_next(v)
  \/ \E v \in Wrappers("bus") : Bus_first_device(v)
  \/ \E v \in Wrappers("device") : Device_prev(v)
  \/ \E v \in Wrappers("device") : Device_next(v)
  \/ \E v \in Wrappers("device") : Device_bus(v)
  \/ \E v \in Wrappers("device") : Device_children(v)
  \/ \E v \in Wrappers("device") : Device_configurations(v)
  \/ \E v \in Wrappers("config_descriptor") : Configuration_interfaces(v)
  \/ \E v \in Wrappers("interface") : Interface_settings(v)
  \/ \E v \in Wrappers("interface_descriptor") : Setting_endpoints(v)
  \/ \E v \in DOMAIN obj : Field(v)
  \/ \E k \in Children : \E v \in Wrappers(k) : Parent(v)
  \/ \E v \in DOMAIN obj : Revoked_p(v)
  \/ \E v \in DOMAIN obj : Bus_inspect(v)
  \/ USB_busses
  \/ \E v \in Wrappers("bus") : Bus_devices(v)

Spec == Init /\ [][Next]_vars

\* The searches by name, with the enumeration and the walks over the lists
\* they search.
NextFind ==
  \/ USB_find_busses
  \/ USB_find_devices
  \/ USB_first_bus
  \/ \E v \in Wrappers("bus") : Bus_next(v)
  \/ \E v \in Wrappers("bus") : Bus_first_device(v)
  \/ \E v \in Wrappers("device") : Device_next(v)
  \/ USB_find_bus
  \/ \E v \in Wrappers("bus") : Bus_find_device(v)

SpecFind == Init /\ [][NextFind]_vars

\* The search by class, with the enumeration and the calls that register the
\* wrappers it comes across.
NextByClass ==
  \/ USB_find_busses
  \/ USB_find_devices
  \/ USB_first_bus
  \/ \E v \in Wrappers("bus") : Bus_first_device(v)
  \/ \E v \in Wrappers("device") : Device_next(v)
  \/ \E v \in Wrappers("device") : Device_configurations(v)
  \/ USB_each_device_by_class

SpecByClass == Init /\ [][NextByClass]_vars

\* A traversal in one thread, the enumeration in another.
NextTraverse ==
  \/ USB_find_busses
  \/ USB_first_bus
  \/ \E v \in Wrappers("bus") : Bus_next(v)
  \/ Thread_start
  \/ Thread_step

SpecTraverse == Init /\ [][NextTraverse]_vars

\* Handles: opening, closing and collecting them.
NextHandle ==
  \/ USB_find_busses
  \/ USB_find_devices
  \/ USB_first_bus
  \/ \E v \in Wrappers("bus") : Bus_first_device(v)
  \/ \E v \in Wrappers("device") : Device_usb_open(v)
  \/ \E v \in Wrappers("device") : Device_open(v)
  \/ \E h \in Held : DevHandle_usb_close(h)
  \/ \E h \in Held : Drop(h)
  \/ \E h \in DOMAIN hdl : Finalize(h)

SpecHandle == Init /\ [][NextHandle]_vars

\* Handles: the operations on open and on closed handles.
NextOps ==
  \/ USB_find_busses
  \/ USB_first_bus
  \/ \E v \in Wrappers("bus") : Bus_first_device(v)
  \/ \E v \in Wrappers("device") : Device_usb_open(v)
  \/ \E h \in Held : DevHandle_usb_close(h)
  \/ \E h \in Held : DevHandle_op(h)
  \/ \E h \in Held : DevHandle_get_string_simple(h)

SpecOps == InitLib /\ [][NextOps]_vars

\* The strings lib/usb.rb derives from a device and caches on its wrapper.
NextString ==
  \/ USB_find_busses
  \/ USB_first_bus
  \/ \E v \in Wrappers("bus") : Bus_first_device(v)
  \/ \E v \in Wrappers("device") : Device_configurations(v)
  \/ \E v \in Wrappers("device") : Device_string(v)
  \/ \E v \in Wrappers("config_descriptor") : Configuration_description(v)
  \/ \E v \in Wrappers("config_descriptor") : Configuration_interfaces(v)
  \/ \E v \in Wrappers("interface") : Interface_settings(v)
  \/ \E v \in Wrappers("interface_descriptor") : Setting_description(v)

SpecString == InitLib /\ [][NextString]_vars

\* Handles: the methods that take a number or a descriptor wrapper.
NextOverload ==
  \/ USB_find_busses
  \/ USB_find_devices
  \/ USB_first_bus
  \/ \E v \in Wrappers("bus") : Bus_first_device(v)
  \/ \E v \in Wrappers("device") : Device_configurations(v)
  \/ \E v \in Wrappers("config_descriptor") : Configuration_interfaces(v)
  \/ \E v \in Wrappers("interface") : Interface_settings(v)
  \/ \E v \in Wrappers("interface_descriptor") : Setting_endpoints(v)
  \/ \E v \in Wrappers("device") : Device_usb_open(v)
  \/ \E h \in Held : DevHandle_convenience(h)

SpecOverload == Init /\ [][NextOverload]_vars

\* USB.dev_string on every class, subclass and protocol of the bounded sets.
InitClass ==
  /\ Loaded({"usb.rb"})
  /\ call \in {[args |-> x, str |-> <<>>] : x \in Classes \X SubClasses \X Protocols}

NextClass == USB_dev_string

SpecClass == InitClass /\ [][NextClass]_vars

\* Endpoint#inspect on the endpoints of one setting: the bytes of the first
\* endpoint are drawn from these.
EndpointAddresses == {0, 1, 15, 16, 127, 128, 129, 143, 255}
MaxAttributes == 63
Attributes == 0..MaxAttributes \cup {65, 193, 255}

EndpointTrees ==
  {[TreeA EXCEPT !.bEndpointAddress = (1 :> a) @@ (2 :> 2) @@ Z,
                 !.bmAttributes = (1 :> b) @@ (2 :> 3) @@ Z] :
     a \in EndpointAddresses, b \in Attributes}

InitEndpoint ==
  /\ rev = "part_000"
  /\ lib = "usb.rb"
  /\ stack \in EndpointTrees
  /\ obj = <<>>
  /\ objects = [k \in Kinds |-> <<>>]
  /\ ivars = <<>>
  /\ hdl = <<>>
  /\ thread = Idle
  /\ before = {}
  /\ call = NoCall

NextEndpoint ==
  \/ USB_first_bus
  \/ \E v \in Wrappers("bus") : Bus_first_device(v)
  \/ \E v \in Wrappers("device") : Device_configurations(v)
  \/ \E v \in Wrappers("config_descriptor") : Configuration_interfaces(v)
  \/ \E v \in Wrappers("interface") : Interface_settings(v)
  \/ \E v \in Wrappers("interface_descriptor") : Setting_endpoints(v)
  \/ \E v \in Wrappers("endpoint_descriptor") : Endpoint_inspect(v)

SpecEndpoint == InitEndpoint /\ [][NextEndpoint]_vars

\* The handles a behaviour can have.
Handles == {<<"devhandle", 0, n>> : n \in 1..MaxHandles}

\* The collector at work: a handle that stays unreferenced and is not yet
\* finalized is finalized at some time.
Collects == \A h \in Handles : WF_vars(h \in DOMAIN hdl /\ Finalize(h))

SpecCollect == Init /\ [][NextHandle]_vars /\ Collects

\* The wraps of every kind, the sweep and the collector.
NextMark ==
  \/ USB_find_busses
  \/ USB_first_bus
  \/ \E v \in Wrappers("bus") : Bus_first_device(v)
  \/ \E v \in Wrappers("device") : Device_configurations(v)
  \/ \E v \in Wrappers("config_descriptor") : Configuration_interfaces(v)
  \/ \E v \in Wrappers("interface") : Interface_settings(v)
  \/ \E v \in Wrappers("interface_descriptor") : Setting_endpoints(v)
  \/ \E v \in DOMAIN obj : Collect(v)

SpecMark == Init /\ [][NextMark]_vars

\* ------------------------------------------------------------------ claims
\* What the navigation accessors of wrapper v can do, by its kind.
Navigation(v) ==
  CASE v[1] = "bus" ->
         rusb_bus_prev(v) \cup rusb_bus_next(v) \cup rusb_bus_first_device(v)
    [] v[1] = "device" ->
         rusb_device_prev(v) \cup rusb_device_next(v) \cup rusb_device_bus(v)
           \cup rusb_device_children(v) \cup rusb_device_config(v)
    [] v[1] = "config_descriptor" -> rusb_config_interfaces(v)
    [] v[1] = "interface" -> rusb_interface_settings(v)
    [] v[1] = "interface_descriptor" -> rusb_setting_endpoints(v)
    [] OTHER -> {}

\* What any call that wraps tree nodes can do in the current state.
Navigations == rusb_first_bus \cup UNION {Navigation(v) : v \in DOMAIN obj}

\* What the parent accessor of wrapper v can do, where there is one.
ParentOf(v) ==
  IF v[1] \in Children /\ rev = "part_000" THEN rusb_parent(v) ELSE {}

\* What the accessors lib/usb.rb derives from a device string can do on v.
DerivedStrings(v) ==
  CASE v[1] = "device" ->
         UNION {device_string(v, x[1], x[2], x[3]) :
                  x \in DeviceStrings \X PrimRets \X CloseRets}
    [] v[1] = "config_descriptor" /\ rev = "part_000" ->
         UNION {config_description(v, x[1], x[2]) : x \in PrimRets \X CloseRets}
    [] v[1] = "interface_descriptor" /\ rev = "part_000" ->
         UNION {setting_description(v, x[1], x[2]) : x \in PrimRets \X CloseRets}
    [] OTHER -> {}

\* C1: after USB.find_busses every wrapper of every kind that existed before
\* the call is revoked: revoked? is true of it and each of its field and
\* navigation accessors raises the revoked error.
C1_EveryKindRevoked ==
  \A v \in before :
    /\ Revoked(v)
    /\ \A m \in rusb_revoked_p(v) : RTEST(m.ret[1]) = 1
    /\ \A m \in Navigation(v) \cup rusb_field(v) \cup ParentOf(v) :
         m.err = "revoked"

\* C2: USB.find_busses and USB.find_devices both sweep first: when the
\* enumeration primitive is invoked no wrapper is live and every registry is
\* empty.
C2_SweepBeforeEnumeration ==
  \A m \in {rusb_find_busses, rusb_find_devices} :
    /\ m.prims # <<>>
    /\ m.live = {}
    /\ \A k \in Kinds : m.objects[k] = <<>>

\* C3: a call that wraps an address for which a live wrapper of that kind
\* exists returns that very wrapper, whichever accessor makes the call.
C3_SameAddressSameWrapper ==
  \A m \in Navigations : \A i \in DOMAIN m.ret :
    m.ret[i] # Qnil =>
      \A v \in Live(obj) :
        (v[1] = m.ret[i][1] /\ obj[v].ptr = m.obj[m.ret[i]].ptr) => v = m.ret[i]

\* C3 happens: some call returns a wrapper that was live before the call.
C3_Witness ==
  \E m \in Navigations : \E i \in DOMAIN m.ret : m.ret[i] \in Live(obj)

\* C4: after a revocation no call that wraps a tree node returns a wrapper
\* that existed before the revocation, whatever the node's address.
C4_FreshWrappersAfterRevocation ==
  \A m \in Navigations : \A i \in DOMAIN m.ret : m.ret[i] \notin before

\* C5: on a revoked wrapper every accessor raises the revoked error, the
\* accessors of derived strings included, also when the string was computed
\* before the revocation.
C5_EveryAccessorChecksRevoked ==
  \A v \in DOMAIN obj :
    Revoked(v) =>
      \A m \in Navigation(v) \cup rusb_field(v) \cup ParentOf(v)
                 \cup DerivedStrings(v) :
        m.err = "revoked"

\* C6: every operation on a closed handle raises the closed error, invokes no
\* primitive and changes nothing.
C6_ClosedHandleRejectsOperations ==
  \A h \in Held : \A op \in HandleOps : \A r \in PrimRets :
    hdl[h].ptr = NULL =>
      LET m == rusb_handle_op(Same, h, op, r)
      IN  m.err = "closed" /\ m.prims = <<>> /\ m.hdl = hdl

\* C6 happens: the application references a closed handle.
C6_Witness == \E h \in Held : hdl[h].ptr = NULL

C7_CloseOutcome ==
  \A h \in Held : \A r \in CloseRets :
    LET m == rusb_close(Same, h, r)
    IN  IF hdl[h].ptr = NULL
          THEN m.err = "closed" /\ m.prims = <<>> /\ m.hdl = hdl
        ELSE IF r >= 0
          THEN m.err = "" /\ m.hdl[h].ptr = NULL /\ m.prims = <<"usb_close">>
          ELSE /\ m.err = "SystemCallError"
               /\ m.hdl[h].ptr = hdl[h].ptr
               /\ m.prims = <<"usb_close">>

C7_ClosedStaysClosed ==
  \A h \in DOMAIN hdl : hdl[h].ptr = NULL => hdl'[h].ptr = NULL

C8_OpenFailureRaises ==
  \A v \in Wrappers("device") : \A m \in rusb_device_open(v) :
    /\ m.ret # <<>> => m.hdl[m.ret[1]].ptr # NULL
    /\ \A h \in DOMAIN m.hdl \ DOMAIN hdl : m.hdl[h].ptr = NULL => m.err # ""

\* C9: when USB::Device#open with a block returns or raises, the handle it
\* passed to the block is closed; when it returns, it returns the block's
\* result.
C9_BlockGuaranteesClose ==
  \A v \in Wrappers("device") : \A x \in Blocks \X CloseRets \X CloseRets :
    \A m \in device_open(v, x[1], x[2], x[3]) :
      /\ \A h \in DOMAIN m.hdl \ DOMAIN hdl : m.hdl[h].ptr = NULL
      /\ m.err = "" => m.str = "result"

\* C10: the close primitive is invoked at most once on the session of any
\* handle, whatever the sequence of closes, close failures and collections.
C10_CloseAtMostOnce == \A h \in DOMAIN hdl : hdl[h].closes <= 1

\* C11: USB.find_busses and USB.find_devices leave every handle as it was: a
\* handle that was open is open afterwards, also when no device wrapper is
\* live any more, and its operations still reach the stack; a handle's session
\* changes only in a step that invokes the close primitive on it.
C11_EnumerationKeepsHandles ==
  \A m \in {rusb_find_busses, rusb_find_devices} :
    /\ m.hdl = hdl
    /\ \A h \in Held : hdl[h].ptr # NULL =>
         \A op \in HandleOps, r \in PrimRets :
           LET e == rusb_handle_op(m, h, op, r)
           IN  e.err # "closed" /\ e.prims = Append(m.prims, op)

C11_OnlyCloseCloses ==
  \A h \in DOMAIN hdl :
    hdl'[h].ptr # hdl[h].ptr =>
      hdl'[h].ptr = NULL /\ hdl'[h].closes = hdl[h].closes + 1

C11_HandlesIndependentOfRevocation ==
  []C11_EnumerationKeepsHandles /\ [][C11_OnlyCloseCloses]_vars

\* C11 happens: the application references an open handle while the device
\* wrapper it kept is revoked and no device wrapper is live.
C11_Witness ==
  /\ \E h \in Held : hdl[h].ptr # NULL
  /\ \E v \in Wrappers("device") : Revoked(v)
  /\ Wrappers("device") \cap Live(obj) = {}

\* The call returned the wrappers of base[0] .. base[n-1], in this order, each
\* with parent v.
ReturnsArray(m, base, n, v) ==
  /\ m.err = ""
  /\ Len(m.ret) = n
  /\ \A i \in 1..Len(m.ret) :
       /\ m.ret[i] # Qnil
       /\ m.obj[m.ret[i]].ptr = base + (i - 1)
       /\ m.obj[m.ret[i]].parent = v

\* The wrappers of kind k that are live and lead to a node the stack holds.
Valid(k) == {v \in Wrappers(k) : check_usb(v) \in Nodes(stack, k)}

\* C12: Device#configurations of a live Device returns the wrappers of its
\* bNumConfigurations configurations in index order, each with the Device
\* wrapper as parent; likewise Configuration#interfaces (bNumInterfaces) and
\* Setting#endpoints (bNumEndpoints).
C12_ArraysMatchCounts ==
  /\ \A v \in Valid("device") : \A m \in rusb_device_config(v) :
       ReturnsArray(m, stack.config[check_usb(v)],
                    stack.bNumConfigurations[check_usb(v)], v)
  /\ \A v \in Valid("config_descriptor") : \A m \in rusb_config_interfaces(v) :
       ReturnsArray(m, stack.interface[check_usb(v)],
                    stack.bNumInterfaces[check_usb(v)], v)
  /\ \A v \in Valid("interface_descriptor") : \A m \in rusb_setting_endpoints(v) :
       ReturnsArray(m, stack.endpoint[check_usb(v)],
                    stack.bNumEndpoints[check_usb(v)], v)

\* C13: the settings of a live Interface with num_altsetting = N are exactly N
\* wrappers, those of altsetting[0] .. altsetting[N-1] and none of
\* altsetting[N], each with the Interface wrapper as parent.
C13_SettingsExactlyN ==
  \A v \in Valid("interface") : \A m \in rusb_interface_settings(v) :
    LET base == stack.altsetting[check_usb(v)]
        N == stack.num_altsetting[check_usb(v)]
    IN  /\ ReturnsArray(m, base, N, v)
        /\ \A i \in 1..Len(m.ret) : m.obj[m.ret[i]].ptr # base + N

\* The tree with its bus list, or the device list of bus b, in the order q.
Discovered(q) == [stack EXCEPT !.busses = q]
DiscoveredOn(b, q) == [stack EXCEPT !.devices[b] = q]

\* The orders in which the nodes of the list s can be discovered.
Orders(s) == {[i \in 1..Len(s) |-> s[pi[i]]] : pi \in Permutations(1..Len(s))}

\* The array holds the wrapper of every node of the list s exactly once, in
\* ascending order of the name name.
SortedOnce(m, s, name) ==
  /\ m.err = ""
  /\ Len(m.ret) = Len(s)
  /\ \A a \in Range(s) : \E i \in 1..Len(m.ret) : m.obj[m.ret[i]].ptr = a
  /\ \A i, j \in 1..Len(m.ret) :
       i < j => name[m.obj[m.ret[i]].ptr] < name[m.obj[m.ret[j]].ptr]

\* C14: USB.busses returns every bus of the bus list once, in ascending order
\* of dirname, and Bus#devices every device of the bus once, in ascending
\* order of filename; the array is the same for every order in which the
\* stack may have linked the same nodes.
C14_SortedWhateverTheOrder ==
  /\ \A q \in Orders(stack.busses) : \A m \in busses(Discovered(q)) :
       /\ SortedOnce(m, stack.busses, stack.dirname)
       /\ \A n \in busses(stack) : n.ret = m.ret
  /\ \A v \in Wrappers("bus") \cap Live(obj) :
       \A q \in Orders(stack.devices[check_usb(v)]) :
         \A m \in devices(DiscoveredOn(check_usb(v), q), v) :
           /\ SortedOnce(m, stack.devices[check_usb(v)], stack.filename)
           /\ \A n \in devices(stack, v) : n.ret = m.ret

\* C14 happens: a live bus wrapper has two devices and the stack two busses,
\* so that the lists have an order.
C14_Witness ==
  /\ Len(stack.busses) = 2
  /\ \E v \in Wrappers("bus") \cap Live(obj) :
       /\ Len(stack.devices[check_usb(v)]) = 2
       /\ \E m \in devices(stack, v) : Range(m.ret) \subseteq DOMAIN obj

\* The operations C15 names: those that hand back a byte count and those that
\* report plain success.
TransferOps ==
  {"usb_control_msg", "usb_bulk_write", "usb_bulk_read", "usb_interrupt_write",
   "usb_interrupt_read", "usb_get_descriptor", "usb_get_descriptor_by_endpoint",
   "usb_get_string", "usb_get_string_simple"}
SettingOps ==
  {"usb_set_configuration", "usb_set_altinterface", "usb_clear_halt",
   "usb_reset", "usb_claim_interface", "usb_release_interface"}

\* C15: on an open handle each operation invokes its primitive once; a
\* negative return r raises the system error with errno -r and the
\* operation's name as reason; a non-negative return is returned as the count
\* by the transfer, descriptor and string operations, and the others return
\* nil.
C15_NegativeReturnIsSystemError ==
  \A h \in Held : hdl[h].ptr # NULL =>
    \A op \in TransferOps \cup SettingOps : \A r \in PrimRets :
      LET m == rusb_handle_op(Same, h, op, r)
      IN  /\ m.prims = <<op>>
          /\ m.hdl = hdl
          /\ r < 0 => m.err = "SystemCallError" /\ m.val = 0 - r /\ m.str = op
          /\ r >= 0 /\ op \in TransferOps =>
               m.err = "" /\ m.val = r /\ m.ret = <<>>
          /\ r >= 0 /\ op \in SettingOps => m.err = "" /\ m.ret = <<Qnil>>

\* C15 happens: the application references an open handle, on which an
\* operation fails and another returns its count.
C15_Witness ==
  \E h \in Held :
    /\ hdl[h].ptr # NULL
    /\ \E op \in HandleOps, r \in PrimRets :
         rusb_handle_op(Same, h, op, r).err = "SystemCallError"
    /\ \E op \in HandleOps, r \in PrimRets : rusb_handle_op(Same, h, op, r).val = 2

\* C16: DevHandle#get_string_simple returns nil exactly when the string fetch
\* fails with EPIPE, EPERM or EFBIG; a closed handle and every other error
\* code raise, and on success the string returned is the fetched bytes
\* without any NUL byte.
C16_NoStringOnExpectedErrors ==
  \A h \in Held : \A r \in PrimRets : \A b \in usb_get_string_simple(r) :
    LET m == get_string_simple(Same, h, r, b)
    IN  IF hdl[h].ptr = NULL THEN m.err = "closed"
        ELSE IF r < 0 /\ (0 - r) \in {EPIPE, EPERM, EFBIG}
          THEN m.err = "" /\ m.str = "nil"
        ELSE IF r < 0
          THEN m.err = "SystemCallError" /\ m.val = 0 - r
        ELSE /\ m.err = "" /\ m.str = "text"
             /\ \A i \in 1..Len(m.buf) : m.buf[i] # 0
             /\ Len(m.buf) = Cardinality({i \in 1..BufLen : b[i] # 0})

\* The rows of CLASS_CODES for a class, a subclass and a protocol, nil where
\* the row gives none.
Rows(c, sc, p) ==
  {i \in 1..Len(CLASS_CODES) :
     CLASS_CODES[i][1] = c /\ CLASS_CODES[i][2] = sc /\ CLASS_CODES[i][3] = p}

\* The number a sequence of hexadecimal digits denotes.
RECURSIVE hex(_)
hex(d) ==
  IF d = <<>> THEN 0
  ELSE 16 * hex(SubSeq(d, 1, Len(d) - 1))
         + (CHOOSE n \in 0..15 : HexDigits[n + 1] = d[Len(d)])

\* C17: USB.dev_string returns the name of the row of the exact triple if
\* there is one; else the name of the class+subclass row followed by the
\* protocol in two hexadecimal digits; else the name of the class row
\* followed by subclass and protocol in hexadecimal; else an unknown string
\* holding the three values in hexadecimal.
C17_ClassificationPrecedence ==
  call.str # <<>> =>
    LET c == call.args[1]
        sc == call.args[2]
        p == call.args[3]
        str == call.str
    IN  IF Rows(c, sc, p) # {}
          THEN \E i \in Rows(c, sc, p) : str = <<CLASS_CODES[i][4]>>
        ELSE IF Rows(c, sc, nil) # {}
          THEN /\ \E i \in Rows(c, sc, nil) : str[1] = CLASS_CODES[i][4]
               /\ Len(str) = 5
               /\ hex(SubSeq(str, 3, 4)) = p
        ELSE IF Rows(c, nil, nil) # {}
          THEN /\ \E i \in Rows(c, nil, nil) : str[1] = CLASS_CODES[i][4]
               /\ Len(str) = 8
               /\ hex(SubSeq(str, 3, 4)) = sc
               /\ hex(SubSeq(str, 6, 7)) = p
        ELSE /\ str[1] = "Unkonwn("
             /\ Len(str) = 10
             /\ hex(SubSeq(str, 2, 3)) = c
             /\ hex(SubSeq(str, 5, 6)) = sc
             /\ hex(SubSeq(str, 8, 9)) = p

\* C17 happens: USB.dev_string has returned for a triple of which only class
\* and subclass have a row.
C17_Witness ==
  /\ call.args = <<8, 1, 80>>
  /\ call.str = <<"MassStorage RBC Bluk-Only", " (", "5", "0", ")">>

\* The method c of the open handle h resolves arg to the number n: it passes n
\* to its primitive, whatever the primitive then returns.
Resolves(c, h, arg, n) ==
  \A r \in PrimRets : \A m \in convenience(c, h, arg, r) :
    /\ m.prims = <<c.op>>
    /\ m.args = <<n>>
    /\ m.err = IF r < 0 THEN "SystemCallError" ELSE ""

\* The number of an interface: the bInterfaceNumber its settings carry.
InterfaceNumber(v) ==
  stack.bInterfaceNumber[stack.altsetting[check_usb(v)]]

\* C18 as stated: claim_interface and release_interface take a number, an
\* Interface or a Setting, set_configuration a number or a Configuration,
\* set_altinterface a number or a Setting, clear_halt a number or an Endpoint;
\* the primitive receives the number, or the matching field of the wrapper.
C18_OverloadsResolveWrappers ==
  \A h \in Held : hdl[h].ptr # NULL =>
    \A c \in Convenience :
      /\ \A n \in Nums : Resolves(c, h, Num(n), n)
      /\ \A k \in Kinds : \A v \in Valid(k) :
           /\ respond_to(v, c.field) =>
                Resolves(c, h, v, stack[c.field][check_usb(v)])
           /\ c.field = "bInterfaceNumber" /\ k = "interface" =>
                Resolves(c, h, v, InterfaceNumber(v))

\* C18, amended: each method takes a number or a wrapper of the class that
\* has the matching field (bInterfaceNumber and bAlternateSetting of a Setting,
\* bConfigurationValue of a Configuration, bEndpointAddress of an Endpoint)
\* and passes the number or the field to the primitive; a wrapper of any
\* other class, an Interface given to claim_interface or release_interface
\* among them, raises a type error and a revoked wrapper the revoked error,
\* and no primitive is invoked.
C18_OverloadsResolveMatchingField ==
  \A h \in Held : hdl[h].ptr # NULL =>
    \A c \in Convenience :
      /\ \A n \in Nums : Resolves(c, h, Num(n), n)
      /\ \A k \in Kinds : \A v \in Valid(k) :
           IF respond_to(v, c.field)
             THEN Resolves(c, h, v, stack[c.field][check_usb(v)])
             ELSE \A r \in PrimRets : \A m \in convenience(c, h, v, r) :
                    m.err = "TypeError" /\ m.prims = <<>>
      /\ \A v \in DOMAIN obj : Revoked(v) /\ respond_to(v, c.field) =>
           \A r \in PrimRets : \A m \in convenience(c, h, v, r) :
             m.err = "revoked" /\ m.prims = <<>>

\* C18 happens: with an open handle the application holds an Interface, a
\* Setting with a non-zero interface number and an Endpoint.
C18_Witness ==
  /\ \E h \in Held : hdl[h].ptr # NULL
  /\ Valid("interface") # {}
  /\ \E v \in Valid("interface_descriptor") :
       stack.bInterfaceNumber[check_usb(v)] # 0
  /\ Valid("endpoint_descriptor") # {}

\* ----------------------------------------------------------------------- C19
\* A call that wrapped nothing: it returns nil, raises nothing and leaves the
\* objects and the registries as they were.
ReturnsNil(m) ==
  /\ m.ret = <<Qnil>>
  /\ m.err = ""
  /\ m.obj = obj
  /\ m.objects = objects

Last(s) == s[Len(s)]

\* C19: wrapping the null address returns nil, raises no error and adds
\* nothing to any registry, whatever the kind and the parent; so USB.first_bus
\* with no busses, next and prev of the bus or device at the end of its list
\* and first_device of a bus without devices return nil.
C19_NullAddressIsNil ==
  /\ \A k \in Kinds : \A parent \in DOMAIN obj \cup {Qnil} :
       rusb_make(rev, [obj |-> obj, objects |-> objects], k, NULL, parent)
         = [obj |-> obj, objects |-> objects, v |-> Qnil]
  /\ stack.busses = <<>> => \A m \in rusb_first_bus : ReturnsNil(m)
  /\ \A v \in Valid("bus") :
       /\ check_usb(v) = Last(stack.busses) =>
            \A m \in rusb_bus_next(v) : ReturnsNil(m)
       /\ check_usb(v) = Head(stack.busses) =>
            \A m \in rusb_bus_prev(v) : ReturnsNil(m)
       /\ stack.devices[check_usb(v)] = <<>> =>
            \A m \in rusb_bus_first_device(v) : ReturnsNil(m)
  /\ \A v \in Valid("device") :
       LET l == stack.devices[stack.bus[check_usb(v)]]
       IN  /\ check_usb(v) = Last(l) =>
                \A m \in rusb_device_next(v) : ReturnsNil(m)
           /\ check_usb(v) = Head(l) =>
                \A m \in rusb_device_prev(v) : ReturnsNil(m)

\* The wrapper of the last bus, which has no devices, and the wrapper of the
\* last device of its list are there to be asked.
C19_Witness ==
  /\ \E v \in Valid("bus") :
       /\ check_usb(v) = Last(stack.busses)
       /\ stack.devices[check_usb(v)] = <<>>
       /\ objects["bus"] # <<>>
  /\ \E v \in Valid("device") :
       /\ check_usb(v) = Last(stack.devices[stack.bus[check_usb(v)]])
       /\ check_usb(v) # Head(stack.devices[stack.bus[check_usb(v)]])

\* ----------------------------------------------------------------------- C20
\* Wrapping again an address that is registered, with whatever parent, returns
\* the wrapper registered and leaves every object, its parent too, as it was.
RewrapKeepsParent ==
  \A k \in Kinds : \A p \in DOMAIN objects[k] :
    \A parent \in DOMAIN obj \cup {Qnil} :
      rusb_make(rev, [obj |-> obj, objects |-> objects], k, p, parent)
        = [obj |-> obj, objects |-> objects, v |-> objects[k][p]]

\* A step leaves the parent of every wrapper that is live before and after it.
ParentUnchanged ==
  \A v \in DOMAIN obj \cap DOMAIN obj' :
    obj[v].ptr # NULL /\ obj'[v].ptr # NULL => obj'[v].parent = obj[v].parent

\* C20: the parent of a wrapper is the one of its first wrap for as long as
\* the wrapper is live: wrapping its address again with another parent returns
\* the wrapper with the parent it had, and no operation rewrites it.
C20_ParentFixedAtFirstWrap == []RewrapKeepsParent /\ [][ParentUnchanged]_vars

\* A device whose configuration array lies where a live wrapper is registered
\* that another device is the parent of: Device#configurations wraps it again.
C20_Witness ==
  /\ rev = "part_000"
  /\ \E d \in Valid("device") : \E a \in device_config(stack, check_usb(d)) :
       /\ a[2] > 0
       /\ a[1] \in DOMAIN objects["config_descriptor"]
       /\ obj[objects["config_descriptor"][a[1]]].ptr = a[1]
       /\ obj[objects["config_descriptor"][a[1]]].parent \notin {d, Qnil}

\* ----------------------------------------------------------------------- C21
\* C21: revoked? of every kind returns a boolean and never fails, false on a
\* live wrapper and true on a revoked one, and inspect of a revoked wrapper
\* returns the summary that reports it revoked.
C21_RevokedPredicateIsBoolean ==
  rev = "part_000" =>
    /\ \A v \in DOMAIN obj : \A m \in rusb_revoked_p(v) :
         /\ m.err = ""
         /\ m.ret = <<IF Revoked(v) THEN Qtrue ELSE Qfalse>>
    /\ \A v \in Wrappers("bus") : Revoked(v) =>
         \A m \in bus_inspect(v) : m.err = "" /\ m.str = <<"bus", "revoked">>

\* ----------------------------------------------------------------------- C22
\* The names a node can have, and the tree with the list s in the order q and
\* its nodes named by f.
Names == 0..4
Renamed(f) == [a \in Addr |-> IF a \in DOMAIN f THEN f[a] ELSE 0]

\* The call returns the wrapper of the first node of the list q whose name,
\* read as an integer, is n, and nil if the list has none; no error.
FindsFirst(m, q, name, n) ==
  LET hit == {i \in 1..Len(q) : to_i(rb_str_new2(name[q[i]])) = n}
  IN  /\ m.err = ""
      /\ Len(m.ret) = 1
      /\ IF hit = {} THEN m.ret[1] = Qnil
         ELSE /\ m.ret[1] \in DOMAIN m.obj
              /\ m.obj[m.ret[1]].ptr = q[CHOOSE i \in hit : \A j \in hit : i <= j]

\* C22: USB.find_bus(n) returns the wrapper of the first bus of the bus list
\* whose dirname read as an integer is n, and nil when there is none;
\* Bus#find_device(n) does so over the device list of the bus and filename.
\* This for every order of the list and every naming of its nodes.
C22_FindReturnsFirstMatch ==
  /\ \A q \in Orders(stack.busses) : \A f \in [Range(q) -> Names] : \A n \in Ids :
       \A m \in find_bus([stack EXCEPT !.busses = q, !.dirname = Renamed(f)], n) :
         FindsFirst(m, q, Renamed(f), n)
  /\ \A v \in Wrappers("bus") \cap Live(obj) :
       \A q \in Orders(stack.devices[check_usb(v)]) :
         \A f \in [Range(q) -> Names] : \A n \in Ids :
           \A m \in find_device([stack EXCEPT !.devices[check_usb(v)] = q,
                                              !.filename = Renamed(f)], v, n) :
             FindsFirst(m, q, Renamed(f), n)

\* C22 happens: the current list has a bus that n names and one before it
\* that n does not, and a live bus has two devices to search.
C22_Witness ==
  /\ Len(stack.busses) = 2
  /\ \E n \in Ids : \E m \in find_bus(stack, n) :
       /\ m.ret # <<Qnil>>
       /\ m.ret[1] \in DOMAIN obj
       /\ check_usb(m.ret[1]) = stack.busses[2]
  /\ \E v \in Wrappers("bus") \cap Live(obj) :
       /\ Len(stack.devices[check_usb(v)]) = 2
       /\ \E n \in Ids : \E m \in find_device(stack, v, n) :
            m.ret # <<Qnil>> /\ m.ret[1] \in DOMAIN obj

\* ----------------------------------------------------------------------- C23
\* The settings of the device node a: those of the interfaces of its
\* configurations.
SettingsOf(a) ==
  LET cfg == ArrayElems(stack.config[a], stack.bNumConfigurations[a])
      ifc == UNION {ArrayElems(stack.interface[c], stack.bNumInterfaces[c]) :
                      c \in cfg}
  IN  UNION {ArrayElems(stack.altsetting[i], stack.num_altsetting[i]) : i \in ifc}

\* A byte matches an argument that is omitted, and else the byte it names.
Given(x, byte) == x = nil \/ x = byte

\* The device node a is one the search for devclass, subclass, protocol names.
Searched(a, devclass, subclass, protocol) ==
  IF stack.bDeviceClass[a] = 0
    THEN \E st \in SettingsOf(a) :
           /\ stack.bInterfaceClass[st] = devclass
           /\ Given(subclass, stack.bInterfaceSubClass[st])
           /\ Given(protocol, stack.bInterfaceProtocol[st])
    ELSE /\ stack.bDeviceClass[a] = devclass
         /\ Given(subclass, stack.bDeviceSubClass[a])
         /\ Given(protocol, stack.bDeviceProtocol[a])

NoDuplicates(q) == \A i, j \in 1..Len(q) : q[i] = q[j] => i = j

\* C23: USB.each_device_by_class yields, in the order of USB.devices and each
\* at most once, exactly the devices of USB.devices that the search names: by
\* the settings of a device whose class is per interface, by the device's own
\* bytes otherwise; an omitted subclass or protocol matches every byte and 0
\* matches the byte 0 only.
C23_YieldsExactlyTheMatches ==
  rev = "part_000" =>
    \A c \in DevClasses, sc \in SubClassArgs, p \in ProtocolArgs :
      \A m \in each_device_by_class(stack, c, sc, p) :
        /\ m.err = ""
        /\ m.ret = <<Qnil>>
        /\ NoDuplicates(m.yielded)
        /\ \E u \in USB_devices(stack, [obj |-> obj, objects |-> objects]) :
             /\ Range(u.ret) = {d \in DOMAIN u.obj : d[1] = "device" /\
                                  u.obj[d].ptr \in Nodes(stack, "device")}
             /\ m.yielded =
                  SelectSeq(u.ret,
                            LAMBDA d : Searched(u.obj[d].ptr, c, sc, p))

\* C23 happens: the search has run, and the tree has a device with its class
\* per interface and one with a class of its own, which the search yields
\* both, in their order, with the subclass omitted and neither with the
\* subclass 0.
C23_Witness ==
  /\ rev = "part_000"
  /\ objects["interface_descriptor"] # <<>>
  /\ \E v, w \in Valid("device") :
       /\ stack.bDeviceClass[check_usb(v)] = 0
       /\ stack.bDeviceClass[check_usb(w)] = 8
       /\ \E m \in each_device_by_class(stack, 8, nil, nil) : m.yielded = <<v, w>>
       /\ \E m \in each_device_by_class(stack, 8, 0, nil) : m.yielded = <<>>

\* ----------------------------------------------------------------------- C24
\* C24: a traversal that calls a wrapper which existed when USB.find_busses
\* last ran gets the revoked error from that very call and ends with it: it
\* makes no second such call, and it returns no list that holds wrappers of
\* before the revocation together with wrappers of after it.
C24_StaleAccessRaises ==
  /\ thread.stale > 0 =>
       /\ thread.stale = 1
       /\ thread.status = "raised"
       /\ thread.err = "revoked"
  /\ ~thread.mixed

\* C24 happens: USB.find_busses ran while the traversal had part of its list,
\* and the traversal went on to call one of its wrappers.
C24_Witness ==
  /\ thread.swept
  /\ thread.stale = 1
  /\ thread.status = "raised"
  /\ thread.partial
  /\ thread.outer = "USB.devices"
  /\ thread.op = "devices"

\* The outcomes of Device#next, Device#prev and Device#children on d.
DeviceSteps(d) ==
  rusb_device_next(d) \cup rusb_device_prev(d) \cup rusb_device_children(d)

\* C25: every Device wrapper that Device#next, Device#prev or Device#children
\* returns from a live Device d has the parent that d has, which is a Bus
\* wrapper where the revision stores parents.
C25_NavigationKeepsBusParent ==
  \A d \in Live(obj) \cap Wrappers("device") :
    /\ rev = "part_000" => obj[d].parent \in Wrappers("bus")
    /\ \A m \in DeviceSteps(d) : \A i \in DOMAIN m.ret :
         m.ret[i] # Qnil => m.obj[m.ret[i]].parent = obj[d].parent

\* Bit i of byte x.
Bit(x, i) == (x \div (2 ^ i)) % 2

\* What the summary of an endpoint with address byte a and attribute byte b
\* shows, by the claim: the number, the direction, the transfer type and, of
\* an isochronous endpoint only, the two sub-types.
Shown(a, b) ==
  <<a % 16,
    IF Bit(a, 7) = 1 THEN "IN " ELSE "OUT",
    TransferTypes[(b % 4) + 1]>>
    \o IF b % 4 = 1
         THEN <<SynchronizationTypes[2 * Bit(b, 3) + Bit(b, 2) + 1],
                UsageTypes[2 * Bit(b, 5) + Bit(b, 4) + 1]>>
         ELSE <<>>

\* C26: the summary of a live Endpoint shows the low 4 bits of
\* bEndpointAddress as number, IN exactly when its bit 7 is set and OUT
\* otherwise, the transfer type the low 2 bits of bmAttributes select, and
\* the synchronization and usage sub-types of an isochronous endpoint only.
C26_SummaryFromDescriptorBits ==
  \A v \in Valid("endpoint_descriptor") :
    \A m \in endpoint_inspect(v) :
      /\ m.err = ""
      /\ m.str = <<"endpoint_descriptor">>
                   \o Shown(stack.bEndpointAddress[check_usb(v)],
                            stack.bmAttributes[check_usb(v)])

\* Two endpoints wrapped: an isochronous IN endpoint whose summary shows its
\* sub-types, beside an interrupt OUT endpoint whose summary shows none.
C26_Witness ==
  \E v, w \in Valid("endpoint_descriptor") :
    /\ \E m \in endpoint_inspect(v) :
         m.str = <<"endpoint_descriptor", 15, "IN ", "Isochronous",
                   "Adaptive", "ImplicitFeedback">>
    /\ \E m \in endpoint_inspect(w) :
         m.str = <<"endpoint_descriptor", 2, "OUT", "Interrupt">>

\* rusb_ ## c_name ## _make(p, parent) in the current state adds the entry
\* of p to the registry of kind k when p is not null and not registered, and
\* changes no registry otherwise.
WrapAddsOne ==
  \A k \in Kinds : \A p \in Addr \cup {NULL} :
    \A parent \in DOMAIN obj \cup {Qnil} :
      LET m == rusb_make(rev, [obj |-> obj, objects |-> objects], k, p, parent)
      IN  IF p # NULL /\ p \notin DOMAIN objects[k]
            THEN /\ DOMAIN m.objects[k] = DOMAIN objects[k] \cup {p}
                 /\ \A q \in DOMAIN objects[k] : m.objects[k][q] = objects[k][q]
                 /\ \A j \in Kinds \ {k} : m.objects[j] = objects[j]
            ELSE m.objects = objects

\* What the calls that wrap nothing can do in the current state: the field
\* accessors, revoked?, the parent accessors, usb_open and the operations
\* of the handles.
NoWrap ==
  UNION {rusb_field(v) \cup ParentOf(v)
           \cup (IF rev = "part_000" THEN rusb_revoked_p(v) ELSE {})
           \cup (IF v[1] = "device" THEN rusb_device_open(v) ELSE {})
           \cup (IF v[1] = "endpoint_descriptor"
                   THEN rusb_endpoint_bmAttributes(v) ELSE {}) :
         v \in DOMAIN obj}
    \cup UNION {{rusb_close(Same, h, r) : r \in CloseRets}
                 \cup {rusb_handle_op(Same, h, x[1], x[2]) :
                         x \in HandleOps \X PrimRets}
                 \cup {rusb_devhandle_free(Same, h)} :
               h \in DOMAIN hdl}

\* The nodes of kind k wrapped since the last sweep.
Accessed(k) == {v[2] : v \in Wrappers(k) \ before}

\* C27: wrap adds exactly one entry for a non-null address that is not
\* registered and changes no registry otherwise; the field accessors,
\* revoked?, usb_open and the operations of a DevHandle change no registry;
\* no registry has more entries than nodes of its kind were wrapped since the
\* last sweep.
C27_RegistriesChangeByWrapAndSweep ==
  /\ WrapAddsOne
  /\ \A m \in NoWrap : m.objects = objects
  /\ \A k \in Kinds : Cardinality(DOMAIN objects[k]) <= Cardinality(Accessed(k))

\* The same under the revision that sweeps all six registries.
C27_HoldsWhereAllAreSwept ==
  rev = "part_000" => C27_RegistriesChangeByWrapAndSweep

\* Handle h wraps a session that usb_open opened and no usb_close was
\* invoked on.
SessionOpen(h) == h \in DOMAIN hdl /\ hdl[h].ptr # NULL /\ hdl[h].closes = 0
SessionClosed(h) == h \in DOMAIN hdl /\ hdl[h].closes > 0

\* The step that finalizes an open handle invokes usb_close on its session.
FinalizeCloses ==
  \A h \in DOMAIN hdl :
    ~hdl[h].freed /\ hdl'[h].freed /\ hdl[h].ptr # NULL =>
      hdl'[h].closes = hdl[h].closes + 1

\* C28 as stated: every session opened is eventually closed, by an explicit
\* close or by finalization, when the collector finalizes every unreferenced
\* handle at some time.
C28_EverySessionEventuallyClosed ==
  \A h \in Handles : SessionOpen(h) ~> SessionClosed(h)

\* C28 amended: the finalizer of an open handle closes its session, and the
\* session of every handle that becomes unreferenced is eventually closed,
\* when the collector finalizes every unreferenced handle at some time; the
\* session of a handle the application keeps and never closes stays open.
C28_UnreferencedSessionEventuallyClosed ==
  /\ [][FinalizeCloses]_vars
  /\ \A h \in Handles :
       (SessionOpen(h) /\ ~hdl[h].held) ~> SessionClosed(h)

\* A handle that was dropped open and finalized: the one usb_close its
\* session got came from the collector.
C28_Witness ==
  \E h \in DOMAIN hdl :
    /\ ~hdl[h].held
    /\ hdl[h].freed
    /\ hdl[h].ptr # NULL
    /\ hdl[h].closes = 1

\* C29: for each kind the registry maps address a to w if and only if w is
\* a live wrapper whose DATA_PTR leads to a: what is registered is a live
\* wrapper of that address, and every live wrapper is registered under its
\* address, so that an address has one live wrapper at most.
C29_RegistryIsTheLiveWrappers ==
  \A k \in Kinds :
    /\ \A a \in DOMAIN objects[k] :
         /\ objects[k][a] \in Wrappers(k)
         /\ obj[objects[k][a]].ptr = a
    /\ \A w \in Wrappers(k) \cap Live(obj) :
         /\ obj[w].ptr \in DOMAIN objects[k]
         /\ objects[k][obj[w].ptr] = w

\* The same under the revision that marks all six registries.
C29_HoldsWhereAllAreMarked ==
  rev = "part_000" => C29_RegistryIsTheLiveWrappers

\* C30: every registered wrapper, of each of the six kinds, is marked by
\* rusb_gc_mark, and no registry holds a wrapper the collector has freed.
C30_RegisteredIsMarked ==
  \A k \in Kinds : \A a \in DOMAIN objects[k] :
    /\ objects[k][a] \in rusb_gc_mark(rev, obj, objects)
    /\ objects[k][a] \in DOMAIN obj

\* The same under the revision that marks all six registries.
C30_HoldsWhereAllAreMarked ==
  rev = "part_000" => C30_RegisteredIsMarked

\* The kind that encloses each kind, and the calls from a wrapper of each
\* kind up to its bus.
Enclosing ==
  [device |-> "bus", config_descriptor |-> "device",
   interface |-> "config_descriptor", interface_descriptor |-> "interface",
   endpoint_descriptor |-> "interface_descriptor"]
Height ==
  [device |-> 1, config_descriptor |-> 2, interface |-> 3,
   interface_descriptor |-> 4, endpoint_descriptor |-> 5]

\* C31: where parents are stored, the parent of every live wrapper that is
\* no Bus is a live wrapper of the enclosing kind, and no upward navigation
\* from a live wrapper (.setting, .interface, .configuration, .device, .bus)
\* raises the revoked-object error.
C31_ParentsOfLiveAreLive ==
  rev = "part_000" =>
    \A w \in Live(obj) \ Wrappers("bus") :
      /\ obj[w].parent \in Live(obj) \cap Wrappers(Enclosing[w[1]])
      /\ \A n \in 1..Height[w[1]] : \A m \in upward(w, n) : m.err # "revoked"

\* After a sweep that left a revoked wrapper behind, an endpoint is live and
\* its five calls up to the bus return a live Bus wrapper.
C31_Witness ==
  /\ rev = "part_000"
  /\ DOMAIN obj \ Live(obj) # {}
  /\ \E w \in Live(obj) \cap Wrappers("endpoint_descriptor") :
       \E m \in upward(w, 5) :
         /\ m.err = ""
         /\ m.ret[1] \in Wrappers("bus")
         /\ m.obj[m.ret[1]].ptr # NULL

\* A step leaves every revoked wrapper revoked.
StaysRevoked ==
  \A v \in DOMAIN obj \cap DOMAIN obj' :
    obj[v].ptr = NULL => obj'[v].ptr = NULL

\* Wrapping the address a revoked wrapper had, with any parent, returns
\* another wrapper and leaves the revoked one revoked.
RewrapLeavesRevoked ==
  \A v \in DOMAIN obj \ Live(obj) : \A parent \in DOMAIN obj \cup {Qnil} :
    LET m == rusb_make(rev, [obj |-> obj, objects |-> objects],
                       v[1], v[2], parent)
    IN  m.v # v /\ m.obj[v].ptr = NULL

\* C32: a revoked wrapper stays revoked in every step (find_busses,
\* find_devices, the wraps, the accessors), and a wrap of the address it had
\* does not bring it back.
C32_RevocationIsIrreversible ==
  [][StaysRevoked]_vars /\ []RewrapLeavesRevoked

\* A revoked wrapper beside the live wrapper made since for the node the
\* stack now holds at its old address.
C32_Witness ==
  \E v \in DOMAIN obj \ Live(obj) :
    /\ v[2] \in Nodes(stack, v[1])
    /\ v[2] \in DOMAIN objects[v[1]]
    /\ objects[v[1]][v[2]] # v
    /\ objects[v[1]][v[2]] \in Live(obj)

\* C33: when the close primitive returns a negative value on an open handle,
\* DevHandle#usb_close raises the system error of that errno and the handle
\* is as it was: open, with its session pointer.
C33_FailedCloseLeavesHandleOpen ==
  \A h \in DOMAIN hdl : \A r \in {x \in CloseRets : x < 0} :
    hdl[h].ptr # NULL =>
      LET m == rusb_close(Same, h, r)
      IN  /\ m.err = "SystemCallError"
          /\ m.val = 0 - r
          /\ m.str = "usb_close"
          /\ m.prims = <<"usb_close">>
          /\ m.hdl[h].ptr = hdl[h].ptr
          /\ ~closed(m, h)
          /\ \A g \in DOMAIN hdl \ {h} : m.hdl[g] = hdl[g]

\* A handle the application holds after a usb_close on it failed: the
\* primitive was invoked and the handle is open.
C33_Witness ==
  \E h \in DOMAIN hdl :
    /\ hdl[h].held
    /\ hdl[h].closes = 1
    /\ hdl[h].ptr # NULL

\* What the operations of handle h other than usb_close can do in the
\* current state: each primitive with each return value, the five that take
\* a number with each number, and get_string_simple of lib/usb.rb.
OtherOps(h) ==
  {rusb_handle_op(Same, h, x[1], x[2]) : x \in HandleOps \X PrimRets}
    \cup {rusb_handle_op_num(Same, h, x[1].op, Num(x[2]), x[3]) :
            x \in Convenience \X Nums \X CloseRets}
    \cup {get_string_simple(Same, h, x[1], x[2]) :
            x \in UNION {{r} \X usb_get_string_simple(r) : r \in PrimRets}}

\* C34: no operation of a DevHandle but usb_close changes whether a handle
\* is open: after usb_reset, a transfer that succeeds or fails, a
\* configuration change, a claim or a release, every handle has the DATA_PTR
\* it had.
C34_OnlyCloseChangesOpenState ==
  \A h \in DOMAIN hdl : \A m \in OtherOps(h) :
    /\ \A g \in DOMAIN hdl : m.hdl[g].ptr = hdl[g].ptr
    /\ DOMAIN m.hdl = DOMAIN hdl
    /\ "usb_close" \notin Range(m.prims)

\* An open handle the application holds, on which usb_reset succeeds and a
\* bulk read fails, each leaving it open.
C34_Witness ==
  \E h \in Held :
    /\ hdl[h].ptr # NULL
    /\ LET m == rusb_handle_op(Same, h, "usb_reset", 0)
       IN  m.err = "" /\ m.prims = <<"usb_reset">> /\ ~closed(m, h)
    /\ LET m == rusb_handle_op(Same, h, "usb_bulk_read", -5)
       IN  m.err = "SystemCallError" /\ ~closed(m, h)

\* C35: where parents are stored, Device#bus of a live Device wrapper whose
\* node the stack holds (its bus pointer then is the bus whose list holds it)
\* returns the Bus wrapper that is the parent stored in the Device wrapper.
C35_DeviceBusIsParent ==
  rev = "part_000" =>
    \A d \in Valid("device") : \A m \in rusb_device_bus(d) :
      m.err = "" /\ m.ret = <<obj[d].parent>>

\* The calls of the derived-string accessors of wrapper v: the name of the
\* instance variable and an outcome, for every return value of the string
\* primitive and of the close primitive.
StringCalls(v) ==
  CASE v[1] = "device" ->
         UNION {{<<x[1], m>> : m \in device_string(v, x[1], x[2], x[3])} :
                  x \in DeviceStrings \X PrimRets \X CloseRets}
    [] v[1] = "config_descriptor" /\ rev = "part_000" ->
         UNION {{<<"description", m>> : m \in config_description(v, x[1], x[2])} :
                  x \in PrimRets \X CloseRets}
    [] v[1] = "interface_descriptor" /\ rev = "part_000" ->
         UNION {{<<"description", m>> : m \in setting_description(v, x[1], x[2])} :
                  x \in PrimRets \X CloseRets}
    [] OTHER -> {}

\* C36: once a derived-string accessor has returned on a wrapper, a later
\* call on that wrapper returns the cached value, a cached nil included,
\* and invokes no primitive and opens no session; a first call that returns
\* caches what it returns, and one that raises caches nothing.
C36_DerivedStringsOpenOnce ==
  \A v \in DOMAIN obj : \A c \in StringCalls(v) :
    LET name == c[1]
        m == c[2]
    IN  IF <<v, name>> \in DOMAIN ivars
          THEN /\ m.err = ""
               /\ m.str = ivars[<<v, name>>]
               /\ m.prims = <<>>
               /\ m.hdl = hdl
               /\ m.ivars = ivars
          ELSE IF m.err = ""
            THEN m.ivars = (<<v, name>> :> m.str) @@ ivars
            ELSE m.ivars = ivars

\* A device whose manufacturer is cached as nil after the one session the
\* first call opened and closed: the next call returns nil and opens none.
C36_Witness ==
  \E v \in Wrappers("device") :
    /\ <<v, "manufacturer">> \in DOMAIN ivars
    /\ ivars[<<v, "manufacturer">>] = "nil"
    /\ \E h \in DOMAIN hdl : hdl[h].ptr = NULL /\ hdl[h].closes = 1
    /\ \A m \in device_string(v, "manufacturer", 0, 0) :
         m.str = "nil" /\ m.prims = <<>> /\ DOMAIN m.hdl = DOMAIN hdl

\* C37: the record allocated when a wrapper was made is released exactly
\* once: when the collector frees a wrapper that nothing marks, a revoked one
\* included, its dfree releases the one record made for it, and where none
\* was made it releases none.
C37_RecordReleasedOnce ==
  \A v \in DOMAIN obj \ rusb_gc_mark(rev, obj, objects) :
    obj_free(rev, obj, v).freed = xmalloc(rev)

\* The same of the wrappers that are not revoked.
C37_HoldsOfTheLive ==
  \A v \in Live(obj) : obj_free(rev, obj, v).freed = xmalloc(rev)

====
